---------------------------- MODULE Spec2Model ----------------------------
(***************************************************************************)
(* A model of the cqueues DNS bindings (src/src/dns.c): the packet         *)
(* bindings (new, load, push, setqid, setflags, grep and its iterator)     *)
(* and the resolver bindings (new, submit, fetch, close) over the          *)
(* resolver engine.  The engine and the wire codec (lib/dns.c, lib/dns.h)  *)
(* are not part of src/; the few routines of them the bindings call are    *)
(* modelled from the specification and are marked "spec-modelled" below.   *)
(*                                                                         *)
(* Packets are modelled at byte level.  A C offset o is the index o + 1 of *)
(* the TLA+ sequence that models the buffer.                               *)
(***************************************************************************)
EXTENDS Integers, Sequences, FiniteSets, TLC

VARIABLES
    pkt,    \* the Lua packet object: [size, end, data, dict, studied]
    arg,    \* what the last call was given: the bytes to copy (new, load),
            \* the capacity asked for (new), the section and name (push),
            \* the flags word (setflags);
            \* after dump, the string it gave back
    it,     \* the upvalues of the grep closure: struct dns_rr_i, or NoIter
    rr,     \* the record view the last call gave back (pkt_next), or NoRR
    ret,    \* what the last binding call gave back: [op, vals, err, thrown]
    R,      \* struct resolver: [res, mainthread]
    eng,    \* struct dns_resolver (the engine behind R.res)
    cfg,    \* the resolver configuration options the engine reads
    fds,    \* the socket descriptors the engine holds open
    waits,  \* descriptors with a wait registered in the event loop
    inbox,  \* what the transport has ready for the engine to read
    sent,   \* the transmissions made for the current query
    log,    \* descriptor events of the last call, in order
    resconf, \* the Lua configuration object: struct dns_resolv_conf
    hints,  \* the Lua hints object: struct dns_hints
    hosts,  \* the Lua hosts object: struct dns_hosts
    clo,    \* the upvalues of the closure search or hints grep returned
    stat,   \* struct dns_stat: the engine's counters
    rng,    \* the process-wide random source: the value it gave last
    refs,   \* the configuration, hosts and hints objects' reference
            \* counts, and whether their Lua objects still hold one
    held,   \* what the engine was opened with: for each of the three,
            \* where it came from and the default object's count
    peer    \* a second resolver object: its R, eng, cfg, fds, waits,
            \* inbox, sent, stat and held while the other one is called

vars == <<pkt, arg, it, rr, ret, R, eng, cfg, fds, waits, inbox, sent, log,
          resconf, hints, hosts, clo, stat, rng, refs, held, peer>>
pktvars == <<pkt, arg, it, rr>>
resvars == <<R, eng, cfg, fds, waits, inbox, sent, log>>
libvars == <<resconf, hints, hosts, clo>>
sysvars == <<stat, rng, refs, held, peer>>

(***************************************************************************)
(* Error codes.  The specification names them; the bindings only pass the  *)
(* integer on (lua_pushinteger(L, error)) or raise it as a Lua error.      *)
(***************************************************************************)
OK == "OK"
MalformedPacketError == "MalformedPacketError"
CompressionLoopError == "CompressionLoopError"
NameTooLongError == "NameTooLongError"
BufferFullError == "BufferFullError"
AlreadyInProgressError == "AlreadyInProgressError"
ResolutionTimeoutError == "ResolutionTimeoutError"
TransportError == "TransportError"
EAGAIN == "EAGAIN"
NoAnswerError == "NoAnswerError"
CapacityError == "CapacityError"

(***************************************************************************)
(* Bytes and the 12-byte header.                                           *)
(***************************************************************************)
\* the one element of a singleton: Only({F(v) : v \in {e}}) is F(e) with e
\* computed once
Only(S) == CHOOSE x \in S : TRUE

Min(a, b) == IF a < b THEN a ELSE b
Max(a, b) == IF a < b THEN b ELSE a

Byte(d, off) == d[off + 1]

U16(d, off) == Byte(d, off) * 256 + Byte(d, off + 1)

Zeros(n) == [i \in 1..n |-> 0]

\* d with the 16-bit big-endian value v stored at offset off
PutU16(d, off, v) ==
    [d EXCEPT ![off + 1] = (v \div 256) % 256, ![off + 2] = v % 256]

\* memcpy(dst, src, n): the first n bytes of src over the start of dst.  A
\* copy longer than dst runs over its end, which shows as a longer buffer.
memcpy(dst, src, n) == SubSeq(src, 1, n) \o SubSeq(dst, n + 1, Len(dst))

HDRSIZE == 12

qid_of(P) == U16(P.data, 0)
flags_of(P) == U16(P.data, 2)

\* hdr->tc, bit 9 of the flags word
hdr_tc(P) == (flags_of(P) \div 512) % 2

DNS_S_QD == 1
DNS_S_AN == 2
DNS_S_NS == 4
DNS_S_AR == 8
DNS_S_ALL == 15

DNS_T_A == 1
DNS_T_NS == 2
DNS_C_IN == 1

\* dns_p_count(P, section) for one section
dns_p_count(P, s) ==
    CASE s = DNS_S_QD -> U16(P.data, 4)
      [] s = DNS_S_AN -> U16(P.data, 6)
      [] s = DNS_S_NS -> U16(P.data, 8)
      [] s = DNS_S_AR -> U16(P.data, 10)

TotalCount(P) ==
    dns_p_count(P, DNS_S_QD) + dns_p_count(P, DNS_S_AN)
        + dns_p_count(P, DNS_S_NS) + dns_p_count(P, DNS_S_AR)

\* the section of the record with index idx (0-based) in packet order
SectionOf(P, idx) ==
    LET qd == dns_p_count(P, DNS_S_QD)
        an == dns_p_count(P, DNS_S_AN)
        ns == dns_p_count(P, DNS_S_NS)
    IN  IF idx < qd THEN DNS_S_QD
        ELSE IF idx < qd + an THEN DNS_S_AN
        ELSE IF idx < qd + an + ns THEN DNS_S_NS
        ELSE DNS_S_AR

(***************************************************************************)
(* Names on the wire (spec-modelled): length-prefixed labels, ended by a   *)
(* zero byte or by a two-byte 0xC0-flagged pointer.                        *)
(***************************************************************************)
DNS_D_MAXNAME == 255
DNS_D_MAXPTRS == 4

DOT == 46  \* '.'

\* dns_d_skip: the offset after the name at src, or P.end when the name
\* does not end inside the packet
RECURSIVE dns_d_skip(_, _)
dns_d_skip(P, src) ==
    IF src >= P.end THEN P.end
    ELSE LET b == Byte(P.data, src) IN
         IF b \div 64 = 0
         THEN IF b = 0 THEN src + 1
              ELSE IF src + 1 + b > P.end THEN P.end
              ELSE dns_d_skip(P, src + 1 + b)
         ELSE IF b \div 64 = 3
         THEN IF src + 2 > P.end THEN P.end ELSE src + 2
         ELSE P.end

\* dns_d_expand: the dotted name at src, following pointers; at most
\* DNS_D_MAXPTRS jumps.  On error the length returned is 0.
RECURSIVE d_expand(_, _, _, _)
d_expand(P, src, acc, jumps) ==
    IF src >= P.end
    THEN [name |-> <<>>, error |-> MalformedPacketError, jumps |-> jumps]
    ELSE LET b == Byte(P.data, src) IN
         IF b \div 64 = 0
         THEN IF b = 0
              THEN [name |-> IF acc = <<>> THEN <<DOT>> ELSE acc,
                    error |-> OK, jumps |-> jumps]
              ELSE IF src + 1 + b > P.end
              THEN [name |-> <<>>, error |-> MalformedPacketError,
                    jumps |-> jumps]
              ELSE IF Len(acc) + b + 1 > DNS_D_MAXNAME
              THEN [name |-> <<>>, error |-> NameTooLongError,
                    jumps |-> jumps]
              ELSE d_expand(P, src + 1 + b,
                            acc \o SubSeq(P.data, src + 2, src + 1 + b)
                                \o <<DOT>>, jumps)
         ELSE IF b \div 64 = 3
         THEN IF src + 2 > P.end
              THEN [name |-> <<>>, error |-> MalformedPacketError,
                    jumps |-> jumps]
              ELSE IF jumps >= DNS_D_MAXPTRS
              THEN [name |-> <<>>, error |-> CompressionLoopError,
                    jumps |-> jumps]
              ELSE d_expand(P, (b % 64) * 256 + Byte(P.data, src + 1),
                            acc, jumps + 1)
         ELSE [name |-> <<>>, error |-> MalformedPacketError, jumps |-> jumps]

dns_d_expand(P, src) == d_expand(P, src, <<>>, 0)

(***************************************************************************)
(* struct dns_packet.                                                      *)
(***************************************************************************)
\* dns_p_calcsize / dns_p_init (spec-modelled): a zeroed packet whose buffer
\* holds at least a header; after init the packet is an empty message of 12
\* zero bytes.
dns_p_calcsize(n) == Max(HDRSIZE, n)

dns_p_init(size) ==
    [size |-> size, end |-> HDRSIZE, data |-> Zeros(size), dict |-> {},
     studied |-> TRUE]

\* (the 32-bit ttl is kept as its two 16-bit halves, high half first)
\* one record of the packet, as dns_rr_parse (spec-modelled) reads it at
\* offset off when it is the idx-th record: struct dns_rr, or an error when
\* the record does not end inside the packet
rr_parse_at(P, off, sec, p, bad) ==
    IF off >= P.end \/ P.end - p < 4 THEN bad
    ELSE IF sec = DNS_S_QD
    THEN [error |-> OK, section |-> sec, dn |-> off,
          type |-> U16(P.data, p), class |-> U16(P.data, p + 2),
          ttl |-> <<0, 0>>, rdp |-> 0, rdlen |-> 0, next |-> p + 4]
    ELSE IF P.end - p < 10 THEN bad
    ELSE IF P.end - (p + 10) < U16(P.data, p + 8) THEN bad
    ELSE [error |-> OK, section |-> sec, dn |-> off,
          type |-> U16(P.data, p), class |-> U16(P.data, p + 2),
          ttl |-> <<U16(P.data, p + 4), U16(P.data, p + 6)>>,
          rdp |-> p + 10, rdlen |-> U16(P.data, p + 8),
          next |-> p + 10 + U16(P.data, p + 8)]

dns_rr_parse(P, off, idx) ==
    Only({rr_parse_at(P, off, SectionOf(P, idx), p,
                      [error |-> MalformedPacketError, section |-> 0,
                       dn |-> off, type |-> 0, class |-> 0, ttl |-> <<0, 0>>,
                       rdp |-> 0, rdlen |-> 0, next |-> off]) :
          p \in {dns_d_skip(P, off)}})

NoAny == [error |-> OK, section |-> 0, dn |-> 0, type |-> 0, class |-> 0,
          ttl |-> <<0, 0>>, rdp |-> 0, rdlen |-> 0, next |-> 0]

\* dns_p_study (spec-modelled): one pass over the declared records; an
\* error when the declared counts run past the bytes available
RECURSIVE p_walk(_, _, _)
p_walk_from(P, r, idx) ==
    IF r.error # OK THEN r.error ELSE p_walk(P, r.next, idx + 1)

p_walk(P, off, idx) ==
    IF idx >= TotalCount(P) THEN OK
    ELSE Only({p_walk_from(P, r, idx) : r \in {dns_rr_parse(P, off, idx)}})

dns_p_study(P) == p_walk(P, HDRSIZE, 0)

\* the counts a packet declares exceed the records its bytes hold
CountsExceedBytes(P) == P.end >= HDRSIZE /\ dns_p_study(P) # OK

\* The bytes of the buffer from max(end, 12) on are what earlier contents
\* left there.  No operation reads them (every read below is of the header
\* or of an offset under end), so the model keeps them zero; the header
\* bytes stay as they are, also when end is under 12.
Scrub(d, end) ==
    [i \in 1..Len(d) |-> IF i > HDRSIZE /\ i > end THEN 0 ELSE d[i]]

\* a reload that copies all of the data whatever the buffer holds
pkt_reload_noclip(P, data) ==
    [P EXCEPT !.data = memcpy(P.data, data, Len(data)), !.end = Len(data),
              !.studied = FALSE]

\* pkt_reload, the truncating copy: more data than the buffer holds
set_tc(d) == PutU16(d, 2, U16(d, 2) + (1 - hdr_tc([data |-> d])) * 512)

pkt_reload_clip(P, data) ==
    [P EXCEPT !.data = set_tc(memcpy(P.data, data, P.size)),
              !.end = P.size, !.studied = FALSE]

\* pkt_reload, the plain copy
pkt_reload_fit(P, data) ==
    [P EXCEPT !.data = Scrub(memcpy(P.data, data, Len(data)), Len(data)),
              !.end = Len(data), !.studied = FALSE]

\* the packet after dns_p_study's pass over it: whatever the pass returns,
\* the packet's bytes are as they were and it counts as studied
dns_p_studied(Q) == [Q EXCEPT !.studied = TRUE]

\* a reload that leaves the copied bytes unstudied
pkt_reload_nostudy(Q) == [Q EXCEPT !.dict = {HDRSIZE}]

\* pkt_reload: the copy, then dns_p_study (its result is dropped), then the
\* dictionary is cleared and the query name's offset added
pkt_reload_study(Q) == [dns_p_studied(Q) EXCEPT !.dict = {HDRSIZE}]

pkt_reload(P, data) ==
    pkt_reload_study(IF P.size < Len(data) THEN pkt_reload_clip(P, data)
                     ELSE pkt_reload_fit(P, data))

(***************************************************************************)
(* Record iteration: struct dns_rr_i and dns_rr_grep (spec-modelled).      *)
(***************************************************************************)
NoIter == [live |-> FALSE, section |-> 0, type |-> 0, class |-> 0,
           name |-> <<>>, next |-> 0, index |-> 0, count |-> 0,
           dirty |-> FALSE]

\* dns_rr_i_init over the filter table of pkt_grep; dirty is a ghost field,
\* set when the packet is rewritten under a live iterator
dns_rr_i_init(f) ==
    [live |-> TRUE, section |-> f.section, type |-> f.type,
     class |-> f.class, name |-> f.name, next |-> HDRSIZE, index |-> 0,
     count |-> 0, dirty |-> FALSE]

\* whether record r passes the iterator's filter (0 and <<>>: no filter)
SameName(e, name) == e.error = OK /\ e.name = name

dns_rr_i_match(P, i, r) ==
    /\ (i.section = 0 \/ i.section = r.section)
    /\ (i.type = 0 \/ i.type = r.type)
    /\ (i.class = 0 \/ i.class = r.class)
    /\ (i.name = <<>> \/ SameName(dns_d_expand(P, r.dn), i.name))

\* dns_rr_grep(&rr, 1, rr_i, P, &error): the next matching record.  It ends
\* (found = FALSE, error = OK) once every declared record was passed, and
\* fails when a declared record does not lie inside the packet.
RECURSIVE dns_rr_grep(_, _)
rr_grep_at(P, i, r, j) ==
    IF r.error # OK
    THEN [found |-> FALSE, error |-> r.error, rr |-> r, i |-> i]
    ELSE IF dns_rr_i_match(P, i, r)
    THEN [found |-> TRUE, error |-> OK, rr |-> r,
          i |-> [j EXCEPT !.count = i.count + 1]]
    ELSE dns_rr_grep(P, j)

rr_grep_step(P, i, r) ==
    rr_grep_at(P, i, r, [i EXCEPT !.next = r.next, !.index = i.index + 1])

dns_rr_grep(P, i) ==
    IF i.index >= TotalCount(P)
    THEN [found |-> FALSE, error |-> OK, rr |-> NoAny, i |-> i]
    ELSE rr_grep_step(P, i, dns_rr_parse(P, i.next, i.index))

(***************************************************************************)
(* Record views: struct rr, rr_push.                                       *)
(***************************************************************************)
NoRR == [section |-> 0, type |-> 0, class |-> 0, ttl |-> <<0, 0>>,
         name |-> <<>>,
         data |-> <<>>, nameerror |-> OK]

\* dns_any_parse (spec-modelled): the payload of the record's type; NS holds
\* a name, A four address bytes, every other type the raw bytes
any_host(e) == [error |-> e.error, data |-> e.name]

dns_any_parse(P, any) ==
    IF any.type = DNS_T_NS
    THEN any_host(dns_d_expand(P, any.rdp))
    ELSE IF any.type = DNS_T_A /\ any.rdlen # 4
    THEN [error |-> MalformedPacketError, data |-> <<>>]
    ELSE [error |-> OK,
          data |-> SubSeq(P.data, any.rdp + 1, any.rdp + any.rdlen)]

\* rr_push: the view of record any.  The error of dns_d_expand is stored in
\* a local that is not read before dns_any_parse overwrites it; only the
\* error of dns_any_parse is raised.  nameerror is a ghost field: what the
\* expansion of the owner name reported.
rr_view(any, e, d) ==
    [thrown |-> d.error,
     rr |-> [section |-> any.section, type |-> any.type,
             class |-> any.class, ttl |-> any.ttl, name |-> e.name,
             data |-> d.data, nameerror |-> e.error]]

rr_push(any, P) ==
    rr_view(any, dns_d_expand(P, any.dn),
            IF any.section # DNS_S_QD THEN dns_any_parse(P, any)
            ELSE [error |-> OK, data |-> <<>>])

(***************************************************************************)
(* What a binding call gives back: the values returned (val names their    *)
(* shape, err is the error code among them) or the Lua error raised.       *)
(***************************************************************************)
Ret(op, val, err) == [op |-> op, val |-> val, err |-> err, thrown |-> ""]
Thrown(op, what, err) == [op |-> op, val |-> "", err |-> err, thrown |-> what]

\* a live iterator's packet was rewritten
Dirty(i) == IF i.live THEN [i EXCEPT !.dirty = TRUE] ELSE i

(***************************************************************************)
(* dns_p_push (spec-modelled): a question appended at the packet's end,    *)
(* its name written label by label and compressed against the dictionary.  *)
(***************************************************************************)
\* the index of the first '.' of a dotted name
RECURSIVE DotAt(_, _)
DotAt(name, k) ==
    IF k > Len(name) THEN k
    ELSE IF name[k] = DOT THEN k ELSE DotAt(name, k + 1)

\* the dictionary offsets whose name is exactly this suffix
DictHits(P, suffix) ==
    {o \in P.dict : SameName(dns_d_expand(P, o), suffix)}

Pointer(o) == <<192 + o \div 256, o % 256>>
Least(S) == CHOOSE x \in S : \A y \in S : x <= y

RECURSIVE dns_d_comp(_, _)
d_comp_label(P, name, k) ==
    <<k - 1>> \o SubSeq(name, 1, k - 1)
        \o dns_d_comp(P, SubSeq(name, k + 1, Len(name)))

d_comp_suffix(P, name, hits) ==
    IF hits # {} THEN Pointer(Least(hits))
    ELSE d_comp_label(P, name, DotAt(name, 1))

dns_d_comp(P, name) ==
    IF name = <<>> \/ name = <<DOT>> THEN <<0>>
    ELSE d_comp_suffix(P, name, DictHits(P, name))

\* the question's bytes placed at the packet's end
p_push_bytes(P, body) ==
    SubSeq(P.data, 1, P.end) \o body
        \o SubSeq(P.data, P.end + Len(body) + 1, P.size)

p_push_count(d) == PutU16(d, 4, (U16(d, 4) + 1) % 65536)

p_push_body(P, name, body) ==
    IF Len(name) > DNS_D_MAXNAME
    THEN [error |-> NameTooLongError, P |-> P]
    ELSE IF P.size - P.end < Len(body)
    THEN [error |-> BufferFullError, P |-> P]
    ELSE [error |-> OK,
          P |-> [P EXCEPT !.data = p_push_count(p_push_bytes(P, body)),
                          !.end = P.end + Len(body),
                          !.dict = P.dict \cup {P.end}]]

dns_p_push(P, section, name, type, class) ==
    p_push_body(P, name,
                dns_d_comp(P, name)
                    \o <<(type \div 256) % 256, type % 256,
                         (class \div 256) % 256, class % 256>>)

(***************************************************************************)
(* The inputs the packet bindings are driven with.                         *)
(***************************************************************************)
SmallCap == 5
MidCap == 24
BigCap == 36
Caps == {SmallCap, MidCap, BigCap}

Hdr(qid, flags, qd, an) ==
    <<qid \div 256, qid % 256, flags \div 256, flags % 256,
      0, qd % 256, an \div 256, an % 256, 0, 0, 0, 0>>

\* questions: ".", "a.", a pointer to itself, two pointers to each other
Qroot == <<0, 0, 1, 0, 1>>
Qa == <<1, 97, 0, 0, 1, 0, 1>>
Qself == <<192, 12, 0, 1, 0, 1>>
Qcycle == <<192, 18, 0, 1, 0, 1, 192, 12, 0, 1, 0, 1>>
\* records owned by the name at offset 12: an A record and an NS record
\* whose host is the name at offset 12
RRa == <<192, 12, 0, 1, 0, 1, 0, 0, 0, 60, 0, 4, 10, 0, 0, 1>>
RRns == <<192, 12, 0, 2, 0, 1, 0, 0, 0, 60, 0, 2, 192, 12>>

\* well-formed messages, messages whose names loop, messages whose declared
\* counts exceed their bytes (among them 500 answers in a bare header),
\* a message with bytes after its last record, and two short strings
Inputs ==
    {Hdr(4660, 256, 0, 0),
     Hdr(4660, 256, 1, 0) \o Qroot,
     Hdr(4660, 256, 1, 0) \o Qa,
     Hdr(4660, 256, 1, 0) \o Qself,
     Hdr(4660, 256, 2, 0) \o Qcycle,
     Hdr(4660, 256, 2, 0) \o Qa \o Qroot,
     Hdr(4660, 256, 1, 1) \o Qa \o RRa,
     Hdr(4660, 256, 1, 1) \o Qa \o RRns,
     Hdr(4660, 256, 1, 1) \o Qself \o RRns,
     Hdr(4660, 256, 0, 500),
     Hdr(4660, 256, 1, 500) \o Qa \o RRa,
     Hdr(4660, 256, 2, 0) \o Qa,
     Hdr(4660, 256, 1, 0) \o Qa \o RRa,
     <<>>,
     <<18, 52, 1>>}

\* pushes stop once the header counts this many questions (the count is a
\* 16-bit counter that a push onto a reloaded short packet keeps raising)
MaxQuestions == 4

Qids == {65537}
FlagWords == {0, 65535}
Names == {<<DOT>>, <<97, DOT>>}
\* a.a.a. and so on, one octet longer than a name may be
LongName == [i \in 1..(DNS_D_MAXNAME + 1) |-> IF i % 2 = 1 THEN 97 ELSE DOT]
PushNames == Names \cup {LongName}
Sections == {DNS_S_QD, DNS_S_AN, DNS_S_NS, DNS_S_AR}
Filters ==
    {[section |-> 0, type |-> 0, class |-> 0, name |-> <<>>],
     [section |-> DNS_S_QD, type |-> 0, class |-> 0, name |-> <<>>],
     [section |-> DNS_S_AN, type |-> DNS_T_NS, class |-> DNS_C_IN,
      name |-> <<>>],
     [section |-> 0, type |-> 0, class |-> 0, name |-> <<97, DOT>>]}

(***************************************************************************)
(* The packet bindings.                                                    *)
(***************************************************************************)
\* a new that takes the capacity asked for as it is
pkt_new_packet_exact(hasdata, data, prepbufsiz) ==
    IF hasdata THEN pkt_reload(dns_p_init(prepbufsiz), data)
    ELSE dns_p_init(prepbufsiz)

\* pkt_new: packet.new([size]) and packet.new(data [, size])
pkt_new_packet(hasdata, data, prepbufsiz) ==
    IF hasdata
    THEN pkt_reload(dns_p_init(dns_p_calcsize(prepbufsiz)), data)
    ELSE dns_p_init(dns_p_calcsize(prepbufsiz))

pkt_new(hasdata, data, n) ==
    /\ pkt' = pkt_new_packet(hasdata, data, n)
    /\ arg' = IF hasdata THEN data ELSE <<n>>
    /\ it' = NoIter
    /\ rr' = NoRR
    /\ ret' = Ret(IF hasdata THEN "new_data" ELSE "new", "packet", OK)
    /\ UNCHANGED <<resvars, libvars, sysvars>>

\* pkt_load
pkt_load(data) ==
    /\ pkt' = pkt_reload(pkt, data)
    /\ arg' = data
    /\ it' = Dirty(it)
    /\ rr' = NoRR
    /\ ret' = Ret("load", "packet", OK)
    /\ UNCHANGED <<resvars, libvars, sysvars>>

\* pkt_setqid: htons(qid) keeps the low 16 bits
pkt_setqid_data(P, qid) == PutU16(P.data, 0, qid % 65536)

pkt_setqid(qid) ==
    /\ pkt' = [pkt EXCEPT !.data = pkt_setqid_data(pkt, qid)]
    /\ it' = Dirty(it)
    /\ ret' = Ret("setqid", "packet", OK)
    /\ arg' = <<>>
    /\ rr' = NoRR
    /\ UNCHANGED <<resvars, libvars, sysvars>>

\* a setflags that drops the reserved bits
pkt_setflags_word_noz(flags) ==
    ((flags \div 128) % 512) * 128 + (flags % 16)

\* pkt_setflags with a number: each header field takes its bits
pkt_setflags_word(flags) ==
    LET qr     == (flags \div 32768) % 2
        opcode == (flags \div 2048) % 16
        aa     == (flags \div 1024) % 2
        tc     == (flags \div 512) % 2
        rd     == (flags \div 256) % 2
        ra     == (flags \div 128) % 2
        unused == (flags \div 16) % 8
        rcode  == flags % 16
    IN  qr * 32768 + opcode * 2048 + aa * 1024 + tc * 512 + rd * 256
            + ra * 128 + unused * 16 + rcode

pkt_setflags(flags) ==
    /\ pkt' = [pkt EXCEPT !.data = PutU16(pkt.data, 2, pkt_setflags_word(flags))]
    /\ it' = Dirty(it)
    /\ ret' = Ret("setflags", "packet", OK)
    /\ arg' = <<flags>>
    /\ rr' = NoRR
    /\ UNCHANGED <<resvars, libvars, sysvars>>

\* a push that hands the packet back without the entry in it
pkt_push_done_lost(r) ==
    /\ pkt' = pkt
    /\ it' = it
    /\ ret' = IF r.error = OK THEN Ret("push", "packet", OK)
              ELSE Ret("push", "nil+err", r.error)

\* a push that hands the packet back whatever dns_p_push said
pkt_push_done_deaf(r) ==
    /\ pkt' = r.P
    /\ it' = Dirty(it)
    /\ ret' = Ret("push", "packet", OK)

pkt_push_done(r) ==
    /\ pkt' = r.P
    /\ it' = IF r.error = OK THEN Dirty(it) ELSE it
    /\ ret' = IF r.error = OK THEN Ret("push", "packet", OK)
              ELSE Ret("push", "nil+err", r.error)

\* pkt_push: only the question section passes the argument check
pkt_push(section, name, type, class) ==
    /\ IF section # DNS_S_QD
       THEN /\ ret' = Thrown("push", "pushing RDATA not yet supported", OK)
            /\ UNCHANGED <<pkt, it>>
       ELSE pkt_push_done(dns_p_push(pkt, section, name, type, class))
    /\ arg' = <<section>> \o name
    /\ rr' = NoRR
    /\ UNCHANGED <<resvars, libvars, sysvars>>

\* pkt_grep: a closure over the packet and a fresh iterator
pkt_grep(f) ==
    /\ it' = dns_rr_i_init(f)
    /\ ret' = Ret("grep", "closure", OK)
    /\ arg' = <<>>
    /\ rr' = NoRR
    /\ UNCHANGED <<pkt, resvars, libvars, sysvars>>

\* a closure that ends the iteration where the packet stops parsing
pkt_next_grep_quiet(P, g) ==
    IF ~g.found THEN [i |-> g.i, rr |-> NoRR, ret |-> Ret("next", "nothing", OK)]
    ELSE [i |-> g.i, rr |-> rr_push(g.rr, P).rr, ret |-> Ret("next", "rr", OK)]

\* pkt_next, the closure: what one call gives back
pkt_next_view(g, v) ==
    [i |-> g.i, rr |-> IF v.thrown # OK THEN NoRR ELSE v.rr,
     ret |-> IF v.thrown # OK
             THEN Thrown("next", "dns.rr.parse", v.thrown)
             ELSE Ret("next", "rr", OK)]

pkt_next_grep(P, g) ==
    IF ~g.found
    THEN [i |-> g.i, rr |-> NoRR,
          ret |-> IF g.error # OK
                  THEN Thrown("next", "dns.packet:grep", g.error)
                  ELSE Ret("next", "nothing", OK)]
    ELSE pkt_next_view(g, rr_push(g.rr, P))

pkt_next_result(P, i) == pkt_next_grep(P, dns_rr_grep(P, i))

pkt_next_done(r) ==
    /\ it' = r.i
    /\ rr' = r.rr
    /\ ret' = r.ret

pkt_next ==
    /\ it.live
    /\ pkt_next_done(pkt_next_result(pkt, it))
    /\ arg' = <<>>
    /\ UNCHANGED <<pkt, resvars, libvars, sysvars>>

(***************************************************************************)
(* The resolver's state when no resolver object exists.                    *)
(***************************************************************************)
NoEngine == [state |-> "FREED", proto |-> "", query |-> <<>>,
             attempts |-> 0, server |-> 0, error |-> OK, answer |-> <<>>,
             timeouts |-> 0, truncs |-> 0]
NoInbox == [data |-> <<>>, expired |-> FALSE, failed |-> FALSE]
NoCfg == [attempts |-> 0, tcp |-> "enable"]
NoPacket == [size |-> 0, end |-> 0, data |-> <<>>, dict |-> {},
             studied |-> FALSE]

\* no configuration, hints or hosts object exists, and no closure over one
NoResconf ==
    [ndots |-> 0, search |-> <<>>, nameserver |-> <<>>, recurse |-> FALSE]
NoHints == <<>>
NoHosts == <<>>
NoClosure == [kind |-> "none"]

NoObjects ==
    /\ resconf = NoResconf
    /\ hints = NoHints
    /\ hosts = NoHosts
    /\ clo = NoClosure

\* counters that are not followed: every update leaves them as they are
Untracked ==
    [on |-> FALSE, queries |-> 0,
     udp |-> [sent |-> [count |-> 0, bytes |-> 0],
              rcvd |-> [count |-> 0, bytes |-> 0]],
     tcp |-> [sent |-> [count |-> 0, bytes |-> 0],
              rcvd |-> [count |-> 0, bytes |-> 0]]]

\* an object nobody holds, and one its Lua object alone holds
Unheld == [lua |-> FALSE, count |-> 0]
LuaHeld == [lua |-> TRUE, count |-> 1]
NoRefs == [resconf |-> Unheld, hosts |-> Unheld, hints |-> Unheld]

\* an engine holds nothing; an engine opened with defaults of its own
Nothing == [from |-> "none", count |-> 0, engine |-> FALSE]
Default(from) == [from |-> from, count |-> 1, engine |-> TRUE]
NoHeld == [resconf |-> Nothing, hosts |-> Nothing, hints |-> Nothing]
LocalHeld == [resconf |-> Default("dns_resconf_local"),
              hosts |-> Default("dns_hosts_local"),
              hints |-> Default("dns_hints_local")]

NoPeer == [R |-> [res |-> FALSE, mainthread |-> FALSE]]

\* no counters followed, no object counted, no second resolver
NoSystem ==
    /\ stat = Untracked
    /\ rng = 0
    /\ refs = NoRefs
    /\ held = NoHeld
    /\ peer = NoPeer

NoResolver ==
    /\ R = [res |-> FALSE, mainthread |-> FALSE]
    /\ eng = NoEngine
    /\ cfg = NoCfg
    /\ fds = {}
    /\ waits = {}
    /\ inbox = NoInbox
    /\ sent = <<>>
    /\ log = <<>>
    /\ NoObjects
    /\ NoSystem

(***************************************************************************)
(* The packet bindings alone: one packet object, any calls in any order.   *)
(***************************************************************************)
InitPkt ==
    /\ \E n \in Caps : /\ pkt = pkt_new_packet(FALSE, <<>>, n)
                       /\ arg = <<n>>
    /\ it = NoIter
    /\ rr = NoRR
    /\ ret = Ret("new", "packet", OK)
    /\ NoResolver

NextPkt ==
    \/ \E n \in Caps : pkt_new(FALSE, <<>>, n)
    \/ \E d \in Inputs, n \in {0, MidCap} :
          pkt_new(TRUE, d, IF n = 0 THEN Len(d) ELSE n)
    \/ \E d \in Inputs : pkt_load(d)
    \/ \E q \in Qids : pkt_setqid(q)
    \/ \E f \in FlagWords : pkt_setflags(f)
    \/ \E s \in Sections, n \in PushNames :
          /\ dns_p_count(pkt, DNS_S_QD) < MaxQuestions
          /\ pkt_push(s, n, DNS_T_A, DNS_C_IN)

SpecPkt == InitPkt /\ [][NextPkt]_vars

(***************************************************************************)
(* Record iteration: a packet filled from raw bytes, and closures made by  *)
(* grep and called any number of times, also across a later load.          *)
(***************************************************************************)
NextIter ==
    \/ \E d \in Inputs, n \in {0, MidCap} :
          pkt_new(TRUE, d, IF n = 0 THEN Len(d) ELSE n)
    \/ \E d \in Inputs : pkt_load(d)
    \/ \E f \in Filters : pkt_grep(f)
    \/ pkt_next

SpecIter == InitPkt /\ [][NextIter]_vars

(***************************************************************************)
(* Claims about the packet bindings (SpecPkt).                             *)
(***************************************************************************)
\* byte b with the header's tc bit (0x02 of the third header byte) set
WithTc(b) == IF (b \div 2) % 2 = 1 THEN b ELSE b + 2

\* C1: the packet's end never exceeds its capacity and the buffer is never
\* written past its capacity; after load, or new with data, of n bytes into
\* a packet of capacity C the end is min(n, C), the first min(n, C) bytes
\* are those of the input, and when n > C the header's truncation bit is set
\* (the only byte of the copy that may differ from the input).
C1_ReloadClipsToCapacity ==
    /\ pkt.end <= pkt.size
    /\ Len(pkt.data) = pkt.size
    /\ ret.op \in {"load", "new_data"} =>
          LET n == Len(arg)
              C == pkt.size
          IN  /\ pkt.end = Min(n, C)
              /\ n <= C => \A i \in 1..n : pkt.data[i] = arg[i]
              /\ n > C => /\ hdr_tc(pkt) = 1
                          /\ \A i \in 1..C :
                                pkt.data[i] = IF i = 3 THEN WithTc(arg[i])
                                              ELSE arg[i]

\* C1 witness: a load of more bytes than the packet holds, whose own
\* truncation bit was clear, into a packet larger than a bare header
C1_Witness ==
    /\ ret.op = "load"
    /\ Len(arg) > pkt.size
    /\ (arg[3] \div 2) % 2 = 0
    /\ pkt.end = pkt.size
    /\ hdr_tc(pkt) = 1
    /\ pkt.size > HDRSIZE

\* the step taken is a call of push; its section and name are in arg'
PushStep == ret'.op = "push"

Others(s) == Sections \ {s}

C11_Step ==
    PushStep
    => /\ arg'[1] # DNS_S_QD
          => /\ ret' = Thrown("push", "pushing RDATA not yet supported", OK)
             /\ pkt' = pkt
       /\ (arg'[1] = DNS_S_QD /\ ret'.val = "packet")
          => /\ ret' = Ret("push", "packet", OK)
             /\ pkt'.size = pkt.size
             /\ pkt'.end > pkt.end
       /\ (arg'[1] = DNS_S_QD /\ ret'.val = "packet" /\ pkt.end >= HDRSIZE)
          => /\ dns_p_count(pkt', DNS_S_QD) = dns_p_count(pkt, DNS_S_QD) + 1
             /\ \A t \in Others(DNS_S_QD) :
                   dns_p_count(pkt', t) = dns_p_count(pkt, t)
             /\ \A i \in 1..pkt.end :
                   i \notin {5, 6} => pkt'.data[i] = pkt.data[i]
             /\ dns_d_expand(pkt', pkt.end).error = OK
             /\ dns_d_expand(pkt', pkt.end).name = Tail(arg')
             /\ dns_d_skip(pkt', pkt.end) = pkt'.end - 4
             /\ U16(pkt'.data, pkt'.end - 4) = DNS_T_A
             /\ U16(pkt'.data, pkt'.end - 2) = DNS_C_IN

\* C11 (as the code has it): a push into the Question section of a packet
\* that holds its header, when it returns the packet, has appended one
\* entry at the packet's end, holding the name,
\* type and class given, and raised the question count by one, the other
\* counts and the bytes before it unchanged; a push naming the Answer,
\* Authority or Additional section is refused with an argument error
\* ("pushing RDATA not yet supported") and leaves the packet as it was.
C11_PushQuestionOnly == [][C11_Step]_vars

\* C11 as claimed: a push into any of the four sections that is not refused
\* with an error code returns the packet with that section's count raised
\* by one.
C11_PushEverySection ==
    [][(PushStep /\ ret'.val # "nil+err")
       => /\ ret'.val = "packet"
          /\ dns_p_count(pkt', arg'[1]) = dns_p_count(pkt, arg'[1]) + 1]_vars

\* C11 witness: a second question pushed, its name compressed or not
C11_Witness ==
    /\ ret = Ret("push", "packet", OK)
    /\ arg = <<DNS_S_QD, 97, DOT>>
    /\ dns_p_count(pkt, DNS_S_QD) = 2
    /\ dns_p_count(pkt, DNS_S_AN) = 0
    /\ pkt.end > HDRSIZE + 5

C12_Step ==
    (PushStep /\ arg'[1] = DNS_S_QD)
    => /\ ret'.val \in {"packet", "nil+err"}
       /\ ret'.val = "nil+err"
          => /\ ret'.err \in {NameTooLongError, BufferFullError}
             /\ ret'.thrown = ""
             /\ pkt' = pkt
       /\ Len(Tail(arg')) > DNS_D_MAXNAME
          => ret' = Ret("push", "nil+err", NameTooLongError)
       /\ (Len(Tail(arg')) <= DNS_D_MAXNAME
           /\ pkt.size - pkt.end < Len(dns_d_comp(pkt, Tail(arg'))) + 4)
          => ret' = Ret("push", "nil+err", BufferFullError)
       /\ ret'.err = BufferFullError
          => pkt.size - pkt.end < Len(Tail(arg')) + 5

\* C12: a push into the Question section of a name longer than 255 octets
\* returns nil and NameTooLongError; a push whose entry does not fit between
\* the packet's end and its capacity returns nil and BufferFullError; a push
\* that returns an error code returns no packet and leaves the packet, its
\* counts and its end included, exactly as it was.
C12_PushErrorsLeavePacket == [][C12_Step]_vars

\* C12 witness: the name of 256 octets refused, in a packet that had room
\* and already held a question
C12_Witness ==
    /\ ret = Ret("push", "nil+err", NameTooLongError)
    /\ arg = <<DNS_S_QD>> \o LongName
    /\ dns_p_count(pkt, DNS_S_QD) = 1
    /\ pkt.size - pkt.end > 5

NextStep == it.live /\ ret'.op = "next" /\ pkt' = pkt

C8_Bounded ==
    /\ it.live => it.count <= it.index
    /\ (it.live /\ ~it.dirty)
       => /\ it.index <= TotalCount(pkt)
          /\ it.next <= Max(pkt.end, HDRSIZE)
          /\ (ret.op = "next" /\ ret.val = "rr") => it.next <= pkt.end
          /\ (ret.op = "next" /\ ret.val = "nothing")
             => it.index = TotalCount(pkt)
    /\ (ret.op = "next" /\ ret.thrown = "dns.packet:grep")
       => /\ ret.err = MalformedPacketError
          /\ it.index < TotalCount(pkt)
          /\ ~it.dirty => dns_p_study(pkt) = MalformedPacketError

C8_Step ==
    NextStep
    => /\ ret'.val = "rr"
          => /\ it.index < it'.index
             /\ it'.index <= TotalCount(pkt)
             /\ it'.count = it.count + 1
       /\ it.index <= it'.index
       /\ it'.count - it.count <= it'.index - it.index
       /\ it'.count <= it.count + 1
       /\ (it.index < TotalCount(pkt)
           /\ dns_rr_parse(pkt, it.next, it.index).error # OK)
          => /\ ret' = Thrown("next", "dns.packet:grep", MalformedPacketError)
             /\ it' = it

\* C8: every call of the iterator that yields a record moves its index up,
\* never past the packet's declared record count, so it yields no more
\* records than the packet declares and then ends; it ends without error
\* only when every declared record was passed; when the next declared
\* record does not lie inside the packet's bytes the call fails with
\* MalformedPacketError; every record yielded ends inside the packet and
\* the iterator never stands beyond its end (or the header's).
C8_IterationBounded == []C8_Bounded /\ [][C8_Step]_vars

\* C8 witness: a packet declaring more records than its bytes hold, the
\* iterator having yielded the one record that is there, fails on the next
C8_Witness ==
    /\ it.live
    /\ ~it.dirty
    /\ it.count = 1
    /\ it.index = 1
    /\ TotalCount(pkt) > 1
    /\ ret = Thrown("next", "dns.packet:grep", MalformedPacketError)

\* C9: loading, or creating a packet from, bytes whose header declares more
\* records than the bytes hold (such as 500 answers in 12 bytes) fails with
\* MalformedPacketError, and no record an iterator yields ends beyond the
\* packet's end.
C9_DecodeRejectsBadCounts ==
    /\ (ret.op \in {"load", "new_data"} /\ CountsExceedBytes(pkt))
       => ret.err = MalformedPacketError
    /\ (it.live /\ ~it.dirty /\ ret.op = "next" /\ ret.val = "rr")
       => it.next <= pkt.end

\* C9, where the code departs: the 12 bytes declaring 500 answers, loaded
\* and handed back as a packet, no error reported
C9_Departure ==
    /\ ret = Ret("load", "packet", OK)
    /\ arg = Hdr(4660, 256, 0, 500)
    /\ pkt.end = HDRSIZE
    /\ dns_p_count(pkt, DNS_S_AN) = 500
    /\ dns_p_study(pkt) = MalformedPacketError

\* C10: expanding a name follows at most DNS_D_MAXPTRS pointers, and a
\* record view is handed over only when the expansion of its name did not
\* fail: a name whose pointers loop makes the call fail with
\* CompressionLoopError.
C10_LoopSurfaced ==
    /\ \A o \in HDRSIZE..(pkt.end - 1) :
          dns_d_expand(pkt, o).jumps <= DNS_D_MAXPTRS
    /\ (ret.op = "next" /\ ret.val = "rr") => rr.nameerror = OK
    /\ (ret.op = "next" /\ ret.thrown # "" /\ rr.nameerror # OK)
       => ret.err = rr.nameerror

\* C10, where the code departs: a view handed over with an empty name, the
\* loop in its name's pointers reported nowhere
C10_Departure ==
    /\ ret = Ret("next", "rr", OK)
    /\ rr.nameerror = CompressionLoopError
    /\ rr.name = <<>>

(***************************************************************************)
(* The resolver engine, struct dns_resolver (spec-modelled).  Its states   *)
(* are IDLE, QUERY_SENT (over eng.proto), DONE and ERROR.  The engine      *)
(* holds the query packet it sent, the number of transmissions made to     *)
(* candidate servers (attempts), the candidate in use, and the answer.     *)
(* timeouts and truncs are ghost fields: the deadlines that expired for    *)
(* this query, and the truncated answers to it that were read over UDP.    *)
(***************************************************************************)
MaxAttempts == 2
NServers == 2

Configs == [attempts : 1..MaxAttempts, tcp : {"enable", "only"}]

IdleEngine == [state |-> "IDLE", proto |-> "", query |-> <<>>,
               attempts |-> 0, server |-> 0, error |-> OK, answer |-> <<>>,
               timeouts |-> 0, truncs |-> 0]

\* a received message as a packet
AsPacket(bytes) ==
    [size |-> Len(bytes), end |-> Len(bytes), data |-> bytes, dict |-> {},
     studied |-> FALSE]

\* the first question of a message: its expanded name, type and class
question_of(P, r, e) ==
    IF P.end < HDRSIZE \/ dns_p_count(P, DNS_S_QD) # 1
       \/ r.error # OK \/ e.error # OK
    THEN <<>>
    ELSE <<e.name, r.type, r.class>>

question_at(P) ==
    IF P.end < HDRSIZE THEN <<>>
    ELSE Only({question_of(P, r, dns_d_expand(P, HDRSIZE)) :
               r \in {dns_rr_parse(P, HDRSIZE, 0)}})

QuestionOf(bytes) == question_at(AsPacket(bytes))

\* the query packet of submit: a header with the query id and the recursion
\* bit, and the one question
query_header(P, qid) ==
    [P EXCEPT !.data = PutU16(PutU16(P.data, 0, qid), 2, 256)]

query_bytes(r) == SubSeq(r.P.data, 1, r.P.end)

QueryPacket(qid, name, type, class) ==
    query_bytes(dns_p_push(query_header(dns_p_init(HDRSIZE + Len(name) + 5),
                                        qid),
                           DNS_S_QD, name, type, class))

\* a response answers the outstanding query: same query id, same question
\* a receiver that takes any message with a full header as the answer
MatchesAnything(E, bytes) == Len(bytes) >= HDRSIZE

same_question(q, asked) == q # <<>> /\ q = asked

Matches(E, bytes) ==
    /\ Len(bytes) >= HDRSIZE
    /\ U16(bytes, 0) = U16(E.query, 0)
    /\ same_question(QuestionOf(bytes), QuestionOf(E.query))

Truncated(bytes) == (U16(bytes, 2) \div 512) % 2 = 1

\* one transmission of the query
Transmission(E) == [proto |-> E.proto, server |-> E.server, data |-> E.query]

\* dns_res_submit: accepted in IDLE and DONE only
dns_res_submit(E, c, qid, name, type, class) ==
    IF E.state \notin {"IDLE", "DONE"}
    THEN [error |-> AlreadyInProgressError, E |-> E, started |-> FALSE]
    ELSE [error |-> OK, started |-> TRUE,
          E |-> [state |-> "QUERY_SENT",
                 proto |-> IF c.tcp = "only" THEN "tcp" ELSE "udp",
                 query |-> QueryPacket(qid, name, type, class),
                 attempts |-> 1, server |-> 0, error |-> OK,
                 answer |-> <<>>, timeouts |-> 0, truncs |-> 0]]

\* a reader that takes a truncated answer as the final one
check_answer_final(E, bytes) == [E EXCEPT !.state = "DONE", !.answer = bytes]

\* dns_res_check, reading: what the engine does with what its socket holds.
\* A transport failure ends the query; a message that does not answer the
\* outstanding query is dropped; a truncated answer over UDP sends the same
\* query over TCP; any other answer completes the query.
check_answer(E, bytes) ==
    IF Truncated(bytes) /\ E.proto = "udp"
    THEN [E EXCEPT !.proto = "tcp"]
    ELSE [E EXCEPT !.state = "DONE", !.answer = bytes]

count_trunc(E, F, bytes) ==
    [F EXCEPT !.truncs = IF Truncated(bytes) /\ E.proto = "udp"
                         THEN E.truncs + 1 ELSE E.truncs]

check_read(E, box) ==
    IF box.failed
    THEN [E EXCEPT !.state = "ERROR", !.error = TransportError]
    ELSE IF box.data = <<>> \/ ~Matches(E, box.data) THEN E
    ELSE count_trunc(E, check_answer(E, box.data), box.data)

\* a timer that gives up at the first deadline
check_deadline_hasty(E, c) ==
    [E EXCEPT !.state = "ERROR", !.error = ResolutionTimeoutError,
              !.timeouts = E.timeouts + 1]

\* dns_res_check, the deadline: an expired deadline inside the attempt
\* budget sends the query to the next candidate server; beyond it the query
\* fails with ResolutionTimeoutError
check_deadline(E, c) ==
    IF E.attempts >= c.attempts
    THEN [E EXCEPT !.state = "ERROR", !.error = ResolutionTimeoutError,
                   !.timeouts = E.timeouts + 1]
    ELSE [E EXCEPT !.attempts = E.attempts + 1,
                   !.server = (E.server + 1) % NServers,
                   !.timeouts = E.timeouts + 1]

\* dns_res_check: one round of progress.  resent says whether the round
\* transmitted the query again (fallback or retry), and thereby set a new
\* deadline.
check_result(E, E2, fb) ==
    [E |-> E2,
     error |-> IF E2.state = "QUERY_SENT" THEN EAGAIN ELSE E2.error,
     resent |-> IF fb \/ (E2.state = "QUERY_SENT"
                          /\ E2.attempts # E.attempts)
                THEN <<Transmission(E2)>> ELSE <<>>]

check_timer(E, c, box, E1, fb) ==
    Only({check_result(E, E2, fb) :
          E2 \in {IF E1.state = "QUERY_SENT" /\ ~fb /\ box.expired
                  THEN check_deadline(E1, c) ELSE E1}})

check_round(E, c, box, E1) ==
    check_timer(E, c, box, E1, E1.state = "QUERY_SENT" /\ E1.proto # E.proto)

dns_res_check(E, c, box) ==
    IF E.state # "QUERY_SENT"
    THEN [E |-> E, error |-> E.error, resent |-> <<>>]
    ELSE Only({check_round(E, c, box, E1) : E1 \in {check_read(E, box)}})

\* dns_res_fetch: the answer, handed over once
dns_res_fetch(E) ==
    IF E.state = "DONE" /\ E.answer # <<>>
    THEN [pkt |-> E.answer, error |-> OK, E |-> [E EXCEPT !.answer = <<>>]]
    ELSE [pkt |-> <<>>, error |-> NoAnswerError, E |-> E]

\* dns_p_copy into a fresh packet of the answer's size
dns_p_copy(bytes) ==
    [dns_p_init(dns_p_calcsize(Len(bytes))) EXCEPT
        !.data = memcpy(Zeros(dns_p_calcsize(Len(bytes))), bytes, Len(bytes)),
        !.end = Len(bytes),
        !.studied = FALSE]

\* the engine's counters (spec-modelled): a message sent or received adds
\* one packet and its bytes under its protocol and direction, an accepted
\* submit adds one query
ZeroStat == [Untracked EXCEPT !.on = TRUE]

stat_zero(st) == IF st.on THEN ZeroStat ELSE st

\* counters that take a received message for a sent one
stat_count_sent(st, proto, dir, data) ==
    IF ~st.on THEN st
    ELSE [st EXCEPT ![proto].sent.count = @ + 1,
                    ![proto].sent.bytes = @ + Len(data)]

stat_count(st, proto, dir, data) ==
    IF ~st.on THEN st
    ELSE [st EXCEPT ![proto][dir].count = @ + 1,
                    ![proto][dir].bytes = @ + Len(data)]

stat_query(st) == IF st.on THEN [st EXCEPT !.queries = @ + 1] ELSE st

\* the transmissions of a call, counted in their order
RECURSIVE stat_sent(_, _)
stat_sent(st, msgs) ==
    IF msgs = <<>> THEN st
    ELSE stat_sent(stat_count(st, msgs[1].proto, "sent", msgs[1].data),
                   Tail(msgs))

\* what dns_res_check reads from its socket, when it reads
stat_rcvd(st, E, box) ==
    IF E.state = "QUERY_SENT" /\ ~box.failed /\ box.data # <<>>
    THEN stat_count(st, E.proto, "rcvd", box.data)
    ELSE st

\* the engine letting go of what it was opened with (spec-modelled): one
\* reference less on each object, which is freed when that was the last
release(c) == [c EXCEPT !.count = @ - 1]

\* an engine that keeps its references when it is closed
refs_kept(rf, h) == rf

refs_released(rf, h) ==
    [k \in DOMAIN rf |->
        IF h[k].engine /\ h[k].from = "given" THEN release(rf[k]) ELSE rf[k]]

(***************************************************************************)
(* The resolver bindings.  log holds the events of the last step, the      *)
(* first naming the step itself.                                           *)
(***************************************************************************)
Ev(ev, fd) == [ev |-> ev, fd |-> fd]

\* a closefd callback that closes without cancelling the wait
res_closefd_nocancel(fd, mainthread, st) ==
    [st EXCEPT !.fds = st.fds \ {fd}, !.log = st.log \o <<Ev("close", fd)>>]

\* res_closefd: the engine's closefd callback
res_closefd(fd, mainthread, st) ==
    IF mainthread
    THEN [fds |-> st.fds \ {fd}, waits |-> st.waits \ {fd},
          log |-> st.log \o <<Ev("cancel", fd), Ev("close", fd)>>]
    ELSE st

\* the engine closing one socket (spec-modelled): the callback first, then
\* the descriptor itself if the callback left it open
so_close(fd, s1) ==
    IF fd \in s1.fds
    THEN [s1 EXCEPT !.fds = s1.fds \ {fd},
                    !.log = s1.log \o <<Ev("close", fd)>>]
    ELSE s1

dns_socketclose(fd, mainthread, st) ==
    so_close(fd, res_closefd(fd, mainthread, st))

\* dns_res_close (spec-modelled): nothing for a null engine; else every
\* socket the engine holds is closed and the engine freed
close_if_open(fd, mainthread, st) ==
    IF fd \in st.fds THEN dns_socketclose(fd, mainthread, st) ELSE st

dns_res_close(open, mainthread, st) ==
    IF ~open THEN st
    ELSE close_if_open("tcp", mainthread,
                       close_if_open("udp", mainthread, st))

\* a close that uses the recorded main thread only
close_thread_recorded(mainthread) == mainthread

\* res_close: with no main thread recorded the calling thread stands in for
\* it during the call
close_thread(mainthread) == IF ~mainthread THEN TRUE ELSE mainthread

res_close_done(st) ==
    /\ fds' = st.fds
    /\ waits' = st.waits
    /\ log' = st.log

\* dns_res_close followed by R->res = 0, as res_close and res__gc have it
res_release(ev, thread) ==
    /\ res_close_done(dns_res_close(R.res, thread,
                                    [fds |-> fds, waits |-> waits,
                                     log |-> <<Ev(ev, "")>>]))
    /\ eng' = NoEngine
    /\ inbox' = NoInbox
    /\ sent' = <<>>
    /\ stat' = stat_zero(stat)
    /\ refs' = refs_released(refs, held)
    /\ held' = NoHeld
    /\ UNCHANGED <<cfg, pktvars, libvars, rng, peer>>

res_close ==
    /\ res_release("close()", close_thread(R.mainthread))
    /\ R' = [R EXCEPT !.res = FALSE]
    /\ ret' = Ret("close", "nothing", OK)

\* res__gc: the main thread is forgotten first, so the callback does nothing
\* and the engine closes its descriptors by itself
res__gc ==
    /\ res_release("__gc", FALSE)
    /\ R' = [res |-> FALSE, mainthread |-> FALSE]
    /\ ret' = Ret("__gc", "nothing", OK)

\* res_check failing: luaL_argerror "resolver defunct"
defunct(op) ==
    /\ ~R.res
    /\ ret' = Thrown(op, "resolver defunct", OK)
    /\ log' = <<Ev(op, "")>>
    /\ UNCHANGED <<R, eng, cfg, fds, waits, inbox, sent, pktvars, libvars,
                   sysvars>>

\* a submit that reports success whatever the engine said
res_submit_ret_true(error) == Ret("submit", "true", OK)

\* res_submit: what it returns for the engine's error code
res_submit_ret(error) ==
    IF error = OK THEN Ret("submit", "true", OK)
    ELSE Ret("submit", "false+err", error)

res_submit_done(s) ==
    /\ eng' = s.E
    /\ ret' = res_submit_ret(s.error)
    /\ fds' = IF s.started THEN {s.E.proto} ELSE fds
    /\ sent' = IF s.started THEN <<Transmission(s.E)>> ELSE sent
    /\ inbox' = IF s.started THEN NoInbox ELSE inbox
    /\ waits' = IF s.started THEN {} ELSE waits
    /\ stat' = IF s.started
               THEN stat_sent(stat_query(stat), <<Transmission(s.E)>>)
               ELSE stat
    /\ rng' = IF s.started THEN U16(s.E.query, 0) ELSE rng

res_submit(qid, name, type, class) ==
    \/ defunct("submit")
    \/ /\ R.res
       /\ res_submit_done(dns_res_submit(eng, cfg, qid, name, type, class))
       /\ log' = <<Ev("submit", "")>>
       /\ UNCHANGED <<R, cfg, pktvars, libvars, refs, held, peer>>

\* a fetch that hands the copy over without looking at its study
res_fetch_ret_nostudy(cerr, haspkt, ferr, serr) ==
    IF cerr # OK THEN Ret("fetch", "false+err", cerr)
    ELSE IF ~haspkt THEN Ret("fetch", "false+err", ferr)
    ELSE Ret("fetch", "packet", OK)

\* res_fetch: what it returns for the results of dns_res_check, of
\* dns_res_fetch (a packet or none) and of dns_p_study on the copy
res_fetch_ret(cerr, haspkt, ferr, serr) ==
    IF cerr # OK THEN Ret("fetch", "false+err", cerr)
    ELSE IF ~haspkt THEN Ret("fetch", "false+err", ferr)
    ELSE IF serr # OK THEN Ret("fetch", "false+err", serr)
    ELSE Ret("fetch", "packet", OK)

\* the events of one round of dns_res_check
CheckEvents(E, box, c) ==
    (IF E.state = "QUERY_SENT" /\ ~box.failed /\ box.data # <<>>
     THEN IF Matches(E, box.data) THEN <<Ev("answer", E.proto)>>
          ELSE <<Ev("discard", E.proto)>>
     ELSE <<>>)
    \o (IF c.resent # <<>> THEN <<Ev("send", c.E.proto)>> ELSE <<>>)

res_fetch ==
    \/ defunct("fetch")
    \/ /\ R.res
       /\ \E c \in {dns_res_check(eng, cfg, inbox)} :
          \E f \in {IF c.error = OK THEN dns_res_fetch(c.E)
                    ELSE [pkt |-> <<>>, error |-> OK, E |-> c.E]} :
          \E P \in {dns_p_copy(f.pkt)} :
          \E r \in {res_fetch_ret(c.error, f.pkt # <<>>, f.error,
                                  dns_p_study(P))} :
             /\ eng' = f.E
             /\ ret' = r
             /\ pkt' = IF r.val = "packet" THEN dns_p_studied(P) ELSE pkt
             /\ it' = IF r.val = "packet" THEN NoIter ELSE it
             /\ sent' = sent \o c.resent
             /\ fds' = IF c.resent # <<>> THEN fds \cup {c.E.proto} ELSE fds
             /\ inbox' = IF f.E.state # "QUERY_SENT" THEN NoInbox
                         ELSE [data |-> <<>>, failed |-> FALSE,
                               expired |-> inbox.expired /\ c.resent = <<>>]
             /\ log' = <<Ev("fetch", "")>> \o CheckEvents(eng, inbox, c)
             /\ stat' = stat_sent(stat_rcvd(stat, eng, inbox), c.resent)
       /\ UNCHANGED <<R, cfg, waits, arg, rr, libvars, rng, refs, held, peer>>

(***************************************************************************)
(* The resolver's surroundings: the event loop and the transport.          *)
(***************************************************************************)
Outstanding == R.res /\ eng.state = "QUERY_SENT"

\* a coroutine starts waiting on the resolver's descriptor
poll ==
    /\ Outstanding
    /\ eng.proto \notin waits
    /\ waits' = waits \cup {eng.proto}
    /\ log' = <<Ev("poll", eng.proto)>>
    /\ UNCHANGED <<R, eng, cfg, fds, inbox, sent, ret, pktvars, libvars,
                   sysvars>>

\* a message arrives on the socket in use
deliver(m) ==
    /\ Outstanding
    /\ ~inbox.failed
    /\ inbox' = [inbox EXCEPT !.data = m]
    /\ waits' = waits \ {eng.proto}
    /\ log' = <<Ev("deliver", eng.proto)>>
    /\ UNCHANGED <<R, eng, cfg, fds, sent, ret, pktvars, libvars, sysvars>>

\* the deadline of the last transmission passes
expire ==
    /\ Outstanding
    /\ ~inbox.expired
    /\ inbox' = [inbox EXCEPT !.expired = TRUE]
    /\ waits' = waits \ {eng.proto}
    /\ log' = <<Ev("expire", "")>>
    /\ UNCHANGED <<R, eng, cfg, fds, sent, ret, pktvars, libvars, sysvars>>

\* the socket in use fails
sockfail ==
    /\ Outstanding
    /\ ~inbox.failed
    /\ inbox' = [inbox EXCEPT !.failed = TRUE]
    /\ waits' = waits \ {eng.proto}
    /\ log' = <<Ev("sockfail", eng.proto)>>
    /\ UNCHANGED <<R, eng, cfg, fds, sent, ret, pktvars, libvars, sysvars>>

QidPool == {4660, 1}

\* answers, truncated answers and answers declaring 500 records, to either
\* question and with either query id
Responses ==
    {Hdr(q, 33152, 1, 1) \o Qa \o RRa : q \in QidPool}
    \cup {Hdr(q, 33664, 1, 0) \o Qa : q \in QidPool}
    \cup {Hdr(q, 33152, 1, 500) \o Qa : q \in QidPool}
    \cup {Hdr(q, 33152, 1, 0) \o Qroot : q \in QidPool}
    \cup {Hdr(q, 33664, 1, 0) \o Qroot : q \in QidPool}

InitRes ==
    /\ pkt = NoPacket
    /\ arg = <<>>
    /\ it = NoIter
    /\ rr = NoRR
    /\ ret = Ret("new", "resolver", OK)
    /\ R \in [res : {TRUE}, mainthread : BOOLEAN]
    /\ eng = IdleEngine
    /\ cfg \in Configs
    /\ fds = {}
    /\ waits = {}
    /\ inbox = NoInbox
    /\ sent = <<>>
    /\ log = <<Ev("new", "")>>
    /\ NoObjects
    /\ stat = Untracked
    /\ rng = 0
    /\ refs = NoRefs
    /\ held = LocalHeld
    /\ peer = NoPeer

NextRes ==
    \/ \E q \in QidPool, n \in Names : res_submit(q, n, DNS_T_A, DNS_C_IN)
    \/ res_fetch
    \/ res_close
    \/ poll
    \/ \E m \in Responses : deliver(m)
    \/ expire
    \/ sockfail

SpecRes == InitRes /\ [][NextRes]_vars

\* the event loop driven fairly, for the one query submitted any number of
\* times: a deadline that is pending passes, and the controller calls fetch
\* whenever a call has something to do
NextLoop ==
    \/ res_submit(4660, <<97, DOT>>, DNS_T_A, DNS_C_IN)
    \/ res_fetch
    \/ res_close
    \/ poll
    \/ \E m \in Responses : deliver(m)
    \/ expire
    \/ sockfail

SpecResFair ==
    InitRes /\ [][NextLoop]_vars /\ WF_vars(expire) /\ WF_vars(res_fetch)

(***************************************************************************)
(* Claims about the resolver (SpecRes, SpecResFair).                       *)
(***************************************************************************)
\* the step taken is a call of fetch on a live resolver
FetchStep == R.res /\ log'[1].ev = "fetch"

\* the socket holds a readable message for the outstanding query's engine
Readable == eng.state = "QUERY_SENT" /\ ~inbox.failed /\ inbox.data # <<>>

\* the points of the transmission history where UDP gave way to TCP
Fallbacks ==
    {i \in 1..(Len(sent) - 1) :
        sent[i].proto = "udp" /\ sent[i + 1].proto = "tcp"}

C2_History ==
    R.res =>
       /\ \A i \in 1..Len(sent) : sent[i].data = sent[1].data
       /\ \A i \in 1..(Len(sent) - 1) :
             sent[i].proto = "tcp" => sent[i + 1].proto = "tcp"
       /\ Cardinality(Fallbacks) <= 1
       /\ eng.state # "IDLE" => Cardinality(Fallbacks) = eng.truncs

C2_Step ==
    (FetchStep /\ Readable /\ Matches(eng, inbox.data)
       /\ Truncated(inbox.data) /\ eng.proto = "udp")
    => /\ sent' = Append(sent, [proto |-> "tcp", server |-> eng.server,
                                data |-> eng.query])
       /\ eng'.state = "QUERY_SENT"
       /\ eng'.proto = "tcp"
       /\ eng'.query = eng.query
       /\ eng'.attempts = eng.attempts

Differs ==
    \/ U16(inbox.data, 0) # U16(eng.query, 0)
    \/ QuestionOf(inbox.data) # QuestionOf(eng.query)

\* C3: a fetch that reads a response whose query id or question differs
\* from the outstanding query's, no deadline having passed, drops it: state,
\* attempts, server, transport, error and the transmissions made are all
\* unchanged, and the call reports only that the query is still in progress.
C3_MismatchDiscarded ==
    [][(FetchStep /\ Readable /\ Differs /\ ~inbox.expired)
       => /\ eng' = eng
          /\ sent' = sent
          /\ fds' = fds
          /\ inbox'.data = <<>>
          /\ ret' = Ret("fetch", "false+err", EAGAIN)]_vars

\* C3 witness: the fetch that dropped a message, the query still outstanding
C3_Witness ==
    /\ log = <<Ev("fetch", ""), Ev("discard", "udp")>>
    /\ eng.state = "QUERY_SENT"
    /\ eng.attempts = 1
    /\ eng.error = OK
    /\ ret = Ret("fetch", "false+err", EAGAIN)

C4_Budget ==
    R.res =>
       /\ eng.attempts <= cfg.attempts
       /\ eng.state = "QUERY_SENT" => eng.timeouts < cfg.attempts
       /\ (eng.state = "ERROR" /\ eng.error = ResolutionTimeoutError)
          => /\ eng.timeouts = cfg.attempts
             /\ eng.attempts = cfg.attempts
             /\ Len(sent) = cfg.attempts + eng.truncs

C4_Answer ==
    (FetchStep /\ Readable /\ Matches(eng, inbox.data)
       /\ (eng.proto = "tcp" \/ ~Truncated(inbox.data)))
    => /\ eng'.state = "DONE"
       /\ dns_p_study(AsPacket(inbox.data)) = OK
          => /\ ret' = Ret("fetch", "packet", OK)
             /\ SubSeq(pkt'.data, 1, pkt'.end) = inbox.data

C4_Settles ==
    Outstanding ~> (~R.res \/ eng.state \in {"DONE", "ERROR"})

\* C4: with the loop driven fairly every outstanding query reaches DONE or
\* ERROR (unless the resolver is closed first); a fetch that reads a full
\* answer to the query moves the engine to DONE and, the answer being well
\* formed, returns it as a packet; a query fails with ResolutionTimeoutError
\* only when as many deadlines passed as attempts are configured, each after
\* a transmission of its own, and the attempts never exceed the budget.
C4_QuerySettles == []C4_Budget /\ [][C4_Answer]_vars /\ C4_Settles

\* C4 witness: a query that failed after the largest budget of deadlines
C4_Witness ==
    /\ R.res
    /\ eng.state = "ERROR"
    /\ eng.error = ResolutionTimeoutError
    /\ cfg.attempts = MaxAttempts
    /\ eng.timeouts = MaxAttempts
    /\ ret = Ret("fetch", "false+err", ResolutionTimeoutError)

C5_OneQuery ==
    (R.res /\ eng.state = "QUERY_SENT")
    => \A i \in 1..Len(sent) : sent[i].data = eng.query

C5_Step ==
    (R.res /\ log'[1].ev = "submit")
    => /\ ret'.val = "true" <=> eng.state \in {"IDLE", "DONE"}
       /\ ret'.val = "true" => ret' = Ret("submit", "true", OK)
                               /\ eng'.state = "QUERY_SENT"
                               /\ Len(sent') = 1
       /\ ret'.val # "true" => /\ ret'.val = "false+err"
                               /\ ret'.err # OK
                               /\ UNCHANGED <<eng, sent, inbox, fds, waits>>
       /\ eng.state = "QUERY_SENT"
          => ret' = Ret("submit", "false+err", AlreadyInProgressError)

\* C5: submit returns true exactly when the engine is IDLE or DONE, and then
\* starts the one query; submit while a query is outstanding returns false
\* with AlreadyInProgressError and leaves the engine, its transmissions, its
\* socket and its wait untouched; everything transmitted while a query is
\* outstanding is that one query.
C5_SubmitOnlyWhenIdle == []C5_OneQuery /\ [][C5_Step]_vars

\* C5 witness: a submit refused while a query is outstanding
C5_Witness ==
    /\ R.res
    /\ eng.state = "QUERY_SENT"
    /\ log = <<Ev("submit", "")>>
    /\ ret = Ret("submit", "false+err", AlreadyInProgressError)
    /\ Len(sent) >= 1

C6_Closed ==
    ~R.res => /\ eng = NoEngine
              /\ fds = {}
              /\ waits = {}
              /\ inbox = NoInbox
              /\ sent = <<>>

C6_Step ==
    log'[1].ev = "close()"
    => /\ ~R'.res
       /\ ret' = Ret("close", "nothing", OK)
       /\ \A fd \in fds :
             \E i \in 1..(Len(log') - 1) :
                log'[i] = Ev("cancel", fd) /\ log'[i + 1] = Ev("close", fd)
       /\ ~R.res => /\ log' = <<Ev("close()", "")>>
                    /\ UNCHANGED <<R, eng, cfg, fds, waits, inbox, sent,
                                   pktvars, libvars, sysvars>>

\* C6: close in any engine state leaves no engine, no open socket, no wait
\* registration and no message or transmission behind, every socket that was
\* open having its wait cancelled before it is closed; close on a resolver
\* already closed changes nothing; either way close returns without error.
C6_CloseAbandons == []C6_Closed /\ [][C6_Step]_vars

\* C6 witness: close on a resolver with no main thread recorded, whose
\* query had fallen back to TCP: both sockets cancelled and closed
C6_Witness ==
    /\ ~R.res
    /\ ~R.mainthread
    /\ log = <<Ev("close()", ""), Ev("cancel", "udp"), Ev("close", "udp"),
               Ev("cancel", "tcp"), Ev("close", "tcp")>>

C7_Ret ==
    (ret.op = "fetch" /\ ret.thrown = "")
    => \/ /\ ret.val = "packet"
          /\ ret.err = OK
          /\ eng.state = "DONE"
          /\ dns_p_study(pkt) = OK
       \/ /\ ret.val = "false+err"
          /\ ret.err # OK

C7_Step ==
    (FetchStep /\ ret'.val # "packet") => pkt' = pkt

\* C7: fetch returns either a packet and no error, and then the engine is
\* DONE and the packet passed study, or false and an error code that is not
\* success, and then no packet is handed over.
C7_FetchPacketOrError == []C7_Ret /\ [][C7_Step]_vars

\* C7 witness: the answer was complete but its copy failed study: false and
\* MalformedPacketError, no packet
C7_Witness ==
    /\ ret = Ret("fetch", "false+err", MalformedPacketError)
    /\ eng.state = "DONE"
    /\ log[1].ev = "fetch"

(***************************************************************************)
(* The packet's life across both bindings: a packet comes from new with    *)
(* data or from a resolver's fetch, is reloaded, pushed onto and iterated. *)
(***************************************************************************)
StudyInputs ==
    {Hdr(4660, 256, 1, 1) \o Qa \o RRa,
     Hdr(4660, 256, 0, 500),
     <<18, 52, 1>>}
StudyFilters ==
    {[section |-> 0, type |-> 0, class |-> 0, name |-> <<>>]}
StudyResponses ==
    {Hdr(4660, 33152, 1, 1) \o Qa \o RRa, Hdr(4660, 33152, 1, 0) \o Qa}

\* a packet object exists
HasPacket == pkt # NoPacket

NextStudy ==
    \/ \E d \in StudyInputs : pkt_new(TRUE, d, Len(d))
    \/ \E d \in StudyInputs : HasPacket /\ pkt_load(d)
    \/ /\ HasPacket
       /\ dns_p_count(pkt, DNS_S_QD) < MaxQuestions
       /\ pkt_push(DNS_S_QD, <<97, DOT>>, DNS_T_A, DNS_C_IN)
    \/ \E f \in StudyFilters : HasPacket /\ pkt_grep(f)
    \/ HasPacket /\ pkt_next
    \/ res_submit(4660, <<97, DOT>>, DNS_T_A, DNS_C_IN)
    \/ \E m \in StudyResponses : deliver(m)
    \/ res_fetch
    \/ res_close

SpecStudy == InitRes /\ [][NextStudy]_vars

\* the step taken is a call on the packet: a push, a grep or a call of the
\* closure grep returned
ObservingStep ==
    /\ UNCHANGED <<resvars, libvars, sysvars>>
    /\ ret'.op \in {"push", "grep", "next"}

\* the step taken fills the packet with raw bytes: a load, a new with data,
\* or a fetch that hands its copy over
FillingStep ==
    \/ /\ UNCHANGED <<resvars, libvars, sysvars>>
       /\ ret'.op \in {"load", "new_data"}
    \/ FetchStep /\ ret'.val = "packet"

C14_Step ==
    /\ ObservingStep => pkt.studied /\ pkt'.studied
    /\ FillingStep => pkt'.studied

\* C14: every step that fills the packet with raw bytes (load, new with
\* data, fetch's copy) has run study by the time it returns, and every push,
\* grep and closure call finds the packet studied and leaves it so.
C14_StudiedBeforeUse == [][C14_Step]_vars

\* C14 witness: a fetch handed over its copy of a received answer, studied,
\* and a closure then read its first record
C14_Witness ==
    /\ ret.op = "next"
    /\ ret.val = "rr"
    /\ eng.state = "DONE"
    /\ pkt.end = Len(Hdr(4660, 33152, 1, 1) \o Qa \o RRa)
    /\ qid_of(pkt) = 4660
    /\ flags_of(pkt) = 33152
    /\ pkt.studied

(***************************************************************************)
(* dump, and the round trip of a packet through its wire bytes.            *)
(***************************************************************************)
\* a dump of the whole buffer
pkt_dump_buffer(P) == P.data

\* pkt_dump: lua_pushlstring(L, P->data, P->end)
pkt_dump_string(P) == SubSeq(P.data, 1, P.end)

pkt_dump ==
    /\ ret' = Ret("dump", "string", OK)
    /\ arg' = pkt_dump_string(pkt)
    /\ rr' = NoRR
    /\ UNCHANGED <<pkt, it, resvars, libvars, sysvars>>

\* well-formed messages to start from
TripInputs ==
    {Hdr(4660, 256, 0, 0),
     Hdr(4660, 256, 1, 0) \o Qa,
     Hdr(4660, 33152, 1, 1) \o Qa \o RRa,
     Hdr(4660, 33152, 1, 1) \o Qa \o RRns,
     Hdr(4660, 256, 2, 0) \o Qa \o Qroot}

\* packets made by new, load, setqid, setflags and push; any of them dumped,
\* and the dump given to new or to load
NextTrip ==
    \/ \E n \in Caps : pkt_new(FALSE, <<>>, n)
    \/ \E d \in TripInputs : pkt_load(d)
    \/ \E q \in Qids : pkt_setqid(q)
    \/ \E f \in FlagWords : pkt_setflags(f)
    \/ \E n \in Names :
          /\ dns_p_count(pkt, DNS_S_QD) < MaxQuestions
          /\ pkt_push(DNS_S_QD, n, DNS_T_A, DNS_C_IN)
    \/ pkt_dump
    \/ /\ ret.op = "dump"
       /\ \E n \in {0} \cup Caps :
             pkt_new(TRUE, arg, IF n = 0 THEN Len(arg) ELSE n)
    \/ ret.op = "dump" /\ pkt_load(arg)

SpecTrip == InitPkt /\ [][NextTrip]_vars

\* every record of P in order, as a closure over no filter yields them: the
\* views, and last how the iteration ended
RECURSIVE RecordsFrom(_, _)
RecordsAfter(P, g) ==
    IF ~g.found THEN <<g.error>>
    ELSE <<rr_push(g.rr, P)>> \o RecordsFrom(P, g.i)

RecordsFrom(P, i) ==
    Only({RecordsAfter(P, g) : g \in {dns_rr_grep(P, i)}})

Records(P) ==
    RecordsFrom(P, dns_rr_i_init([section |-> 0, type |-> 0, class |-> 0,
                                  name |-> <<>>]))

\* the step gives the string a dump just returned to new or to load, and
\* the packet it fills has room for all of it
TripStep ==
    /\ ret.op = "dump"
    /\ pkt.end >= HDRSIZE
    /\ ret'.op \in {"new_data", "load"}
    /\ arg' = arg
    /\ pkt'.size >= Len(arg)

C15_Step ==
    TripStep
    => /\ qid_of(pkt') = qid_of(pkt)
       /\ flags_of(pkt') = flags_of(pkt)
       /\ \A s \in Sections : dns_p_count(pkt', s) = dns_p_count(pkt, s)
       /\ Records(pkt') = Records(pkt)
       /\ pkt'.end = pkt.end
       /\ pkt_dump_string(pkt') = arg

\* C15: a packet that holds its header, dumped, and the dump given to new or
\* load on a packet with room for it: the packet filled has the same query
\* id, flags, section counts and records, and dumps to the same bytes.
C15_RoundTrip == [][C15_Step]_vars

\* C15 witness: a packet with a question and an answer record, its flags
\* all set, came back from its own dump in a new and larger buffer
C15_Witness ==
    /\ ret.op = "new_data"
    /\ pkt.size = BigCap
    /\ pkt.end = Len(Hdr(4660, 256, 1, 1) \o Qa \o RRa)
    /\ pkt.end < pkt.size
    /\ arg = pkt_dump_string(pkt)
    /\ flags_of(pkt) = 65535
    /\ qid_of(pkt) = 1
    /\ Len(Records(pkt)) = 3

(***************************************************************************)
(* Record accessors.  A record userdata is a copy: the parsed attributes,  *)
(* the expanded name and the union rr->data.  Each class of record has its *)
(* own method table; a method is called on a record of its class.          *)
(***************************************************************************)
DNS_T_CNAME == 5
DNS_T_SOA == 6
DNS_T_PTR == 12
DNS_T_MX == 15
DNS_T_TXT == 16
DNS_T_AAAA == 28
DNS_T_SRV == 33
DNS_T_OPT == 41
DNS_T_SSHFP == 44
DNS_T_SPF == 99
DNS_T_ALL == 255
DNS_SSHFP_SHA1 == 1

\* Lua values: strings (as their bytes), integers and nil
LuaStr(s) == [t |-> "string", s |-> s, n |-> 0]
LuaInt(n) == [t |-> "integer", s |-> <<>>, n |-> n]
LuaNil == [t |-> "nil", s |-> <<>>, n |-> 0]

\* rr_push's memset(&rr->data, 0, datasiz): the union read through each of
\* its members; a char array of zeros is the empty C string
ZeroAny ==
    [rdata |-> <<>>, addr |-> <<0, 0, 0, 0>>, host |-> <<>>,
     mname |-> <<>>, rname |-> <<>>, serial |-> 0, refresh |-> 0,
     retry |-> 0, expire |-> 0, minimum |-> 0,
     mxhost |-> <<>>, preference |-> 0,
     priority |-> 0, weight |-> 0, port |-> 0, target |-> <<>>,
     rcode |-> 0, version |-> 0, maxsize |-> 0,
     algo |-> 0, digtype |-> 0, sha1 |-> <<>>]

\* a union that still holds what an earlier record left in the allocation
rr_data_unset(v) ==
    [ZeroAny EXCEPT !.mname = <<97, DOT>>, !.serial = 60, !.mxhost = <<97, DOT>>,
                    !.port = 53, !.maxsize = 512, !.algo = 1,
                    !.digtype = DNS_SSHFP_SHA1, !.sha1 = <<10, 0, 0, 1>>]

\* rr->data of view v: zeroed, and for a record outside the question
\* section filled by dns_any_parse (here: A, NS, and raw rdata otherwise)
rr_data(v) ==
    IF v.section = DNS_S_QD THEN ZeroAny
    ELSE IF v.type = DNS_T_A THEN [ZeroAny EXCEPT !.addr = v.data]
    ELSE IF v.type = DNS_T_NS THEN [ZeroAny EXCEPT !.host = v.data]
    ELSE [ZeroAny EXCEPT !.rdata = v.data]

\* the method table of the record's class (rrinfo, rr_tname, rr_loadall):
\* the C functions behind the type-specific methods and __tostring
rr_methods(type) ==
    IF type = DNS_T_A THEN {"a_addr"}
    ELSE IF type \in {DNS_T_NS, DNS_T_CNAME, DNS_T_PTR} THEN {"ns_host"}
    ELSE IF type = DNS_T_SOA
    THEN {"soa_mname", "soa_rname", "soa_serial", "soa_refresh",
          "soa_retry", "soa_expire", "soa_minimum", "any__tostring"}
    ELSE IF type = DNS_T_MX THEN {"mx_host", "mx_preference", "any__tostring"}
    ELSE IF type = DNS_T_TXT THEN {"any_rdata", "any__tostring"}
    ELSE IF type = DNS_T_AAAA THEN {"aaaa_addr"}
    ELSE IF type = DNS_T_SRV
    THEN {"srv_priority", "srv_weight", "srv_port", "srv_target",
          "any__tostring"}
    ELSE IF type = DNS_T_OPT
    THEN {"opt_rcode", "opt_version", "opt_maxsize", "any__tostring"}
    ELSE IF type = DNS_T_SSHFP
    THEN {"sshfp_algo", "sshfp_digest", "any__tostring"}
    ELSE IF type = DNS_T_SPF THEN {"any_rdata"}
    ELSE {"any_rdata", "any__tostring"}

\* inet_ntop(AF_INET): the four bytes in decimal, dots between
RECURSIVE Dec(_)
Dec(n) == IF n < 10 THEN <<48 + n>> ELSE Dec(n \div 10) \o <<48 + (n % 10)>>

inet_ntop(b) ==
    Dec(b[1]) \o <<DOT>> \o Dec(b[2]) \o <<DOT>> \o Dec(b[3]) \o <<DOT>>
        \o Dec(b[4])

\* the accessors: the values each pushes for a view v whose union is d
any_rdata(v, d) == IF v.section = DNS_S_QD THEN <<LuaStr(<<>>)>> ELSE <<LuaStr(d.rdata)>>

\* (dns_any_print, spec-modelled, is reached for typed records outside the
\* question section; of those the model holds none with this __tostring)
any__tostring(v, d) ==
    IF v.section = DNS_S_QD THEN <<LuaStr(<<>>)>> ELSE <<LuaStr(d.rdata)>>

a_addr(v, d) ==
    <<LuaStr(IF v.section # DNS_S_QD THEN inet_ntop(d.addr) ELSE <<>>)>>

\* (inet_ntop(AF_INET6) is reached only outside the question section)
aaaa_addr(v, d) ==
    <<LuaStr(IF v.section # DNS_S_QD THEN d.rdata ELSE <<>>)>>

ns_host(v, d) == IF v.section = DNS_S_QD THEN <<LuaStr(<<>>)>> ELSE <<LuaStr(d.host)>>

sshfp_digest(v, d) ==
    IF d.digtype = DNS_SSHFP_SHA1 THEN <<LuaInt(d.digtype), LuaStr(d.sha1)>>
    ELSE <<LuaInt(d.digtype), LuaNil>>

rr_value(f, v, d) ==
    CASE f = "any_rdata" -> any_rdata(v, d)
      [] f = "any__tostring" -> any__tostring(v, d)
      [] f = "a_addr" -> a_addr(v, d)
      [] f = "aaaa_addr" -> aaaa_addr(v, d)
      [] f = "ns_host" -> ns_host(v, d)
      [] f = "soa_mname" -> <<LuaStr(d.mname)>>
      [] f = "soa_rname" -> <<LuaStr(d.rname)>>
      [] f = "soa_serial" -> <<LuaInt(d.serial)>>
      [] f = "soa_refresh" -> <<LuaInt(d.refresh)>>
      [] f = "soa_retry" -> <<LuaInt(d.retry)>>
      [] f = "soa_expire" -> <<LuaInt(d.expire)>>
      [] f = "soa_minimum" -> <<LuaInt(d.minimum)>>
      [] f = "mx_host" -> <<LuaStr(d.mxhost)>>
      [] f = "mx_preference" -> <<LuaInt(d.preference)>>
      [] f = "srv_priority" -> <<LuaInt(d.priority)>>
      [] f = "srv_weight" -> <<LuaInt(d.weight)>>
      [] f = "srv_port" -> <<LuaInt(d.port)>>
      [] f = "srv_target" -> <<LuaStr(d.target)>>
      [] f = "opt_rcode" -> <<LuaInt(d.rcode)>>
      [] f = "opt_version" -> <<LuaInt(d.version)>>
      [] f = "opt_maxsize" -> <<LuaInt(d.maxsize)>>
      [] f = "sshfp_algo" -> <<LuaInt(d.algo)>>
      [] f = "sshfp_digest" -> sshfp_digest(v, d)

\* a method call on the record the closure last yielded
rr_call(f) ==
    /\ ret.op \in {"next", "rr"}
    /\ rr # NoRR
    /\ f \in rr_methods(rr.type)
    /\ ret' = Ret("rr", f, OK)
    /\ arg' = rr_value(f, rr, rr_data(rr))
    /\ UNCHANGED <<pkt, it, rr, resvars, libvars, sysvars>>

\* questions of every class of record and of two types without a class,
\* alone and followed by an answer of type A, NS or 255
QTypes ==
    {DNS_T_A, DNS_T_NS, DNS_T_CNAME, DNS_T_SOA, DNS_T_PTR, DNS_T_MX,
     DNS_T_TXT, DNS_T_AAAA, DNS_T_SRV, DNS_T_OPT, DNS_T_SSHFP, DNS_T_SPF,
     DNS_T_ALL, 3}
Qtyped(t) == <<1, 97, 0, 0, t, 0, 1>>
RRall == <<192, 12, 0, DNS_T_ALL, 0, 1, 0, 0, 0, 60, 0, 2, 7, 7>>
RRInputs ==
    {Hdr(4660, 256, 1, 0) \o Qtyped(t) : t \in QTypes}
    \cup {Hdr(4660, 33152, 1, 1) \o Qtyped(DNS_T_SOA) \o r :
             r \in {RRa, RRns, RRall}}

RRMethods == UNION {rr_methods(t) : t \in QTypes}

NextRR ==
    \/ \E d \in RRInputs : pkt_new(TRUE, d, Len(d))
    \/ \E f \in Filters : pkt_grep(f)
    \/ pkt_next
    \/ \E f \in RRMethods : rr_call(f)

SpecRR == InitPkt /\ [][NextRR]_vars

\* the step is a method call on a record of the question section
QuestionCall == ret'.op = "rr" /\ rr.section = DNS_S_QD /\ rr' = rr

\* an empty string or a zero
Empty(x) == x = LuaStr(<<>>) \/ x = LuaInt(0)

\* C16 as claimed: on a question record every type-specific accessor and
\* the string conversion returns only empty strings and zeros.
C16_AllEmpty ==
    [][QuestionCall
       => /\ ret'.thrown = ""
          /\ \A i \in 1..Len(arg') : Empty(arg'[i])]_vars

\* C16 (as the code has it): on a question record no accessor fails, every
\* accessor but the SSHFP digest returns one value, an empty string or a
\* zero, and the SSHFP digest returns the digest type zero and then nil.
C16_EmptyOrNil ==
    [][QuestionCall
       => /\ ret' = Ret("rr", ret'.val, OK)
          /\ ret'.val \in rr_methods(rr.type)
          /\ ret'.val # "sshfp_digest"
             => Len(arg') = 1 /\ Empty(arg'[1])
          /\ ret'.val = "sshfp_digest" => arg' = <<LuaInt(0), LuaNil>>]_vars

\* C16 witness: the serial of a question of type SOA, zero, read from a
\* packet that also holds an answer record with a ttl of 60
C16_Witness ==
    /\ ret = Ret("rr", "soa_serial", OK)
    /\ arg = <<LuaInt(0)>>
    /\ rr.section = DNS_S_QD
    /\ rr.type = DNS_T_SOA
    /\ dns_p_count(pkt, DNS_S_AN) = 1

(***************************************************************************)
(* The configuration object: the search list, the ndots option, and the    *)
(* closure that search returns.                                            *)
(***************************************************************************)
\* countof(resconf->search)
SearchSlots == 4
EmptySearch == [i \in 1..SearchSlots |-> <<>>]

\* countof(resconf->nameserver), and a slot that holds no address
NameserverSlots == 3
AF_UNSPEC == 0
Unspecified == [family |-> AF_UNSPEC, addr |-> <<>>]
NoNameservers == [i \in 1..NameserverSlots |-> Unspecified]

\* dns_resconf_open (spec-modelled): no search domain, ndots 1, no
\* nameserver, no recursion
dns_resconf_open ==
    [ndots |-> 1, search |-> EmptySearch, nameserver |-> NoNameservers,
     recurse |-> FALSE]

\* the ghost field dirty of a search closure is set when the configuration
\* it points to is changed under it
Stale(c) == IF c.kind = "search" THEN [c EXCEPT !.dirty = TRUE] ELSE c

\* resconf_setsearch: slot i takes the i-th entry of the table when that is
\* a string and is cleared when it is nil (<<>> stands for nil and for "")
setsearch_slots(t) ==
    [i \in 1..SearchSlots |-> IF i <= Len(t) THEN t[i] ELSE <<>>]

resconf_setsearch(t) ==
    /\ resconf' = [resconf EXCEPT !.search = setsearch_slots(t)]
    /\ clo' = Stale(clo)
    /\ ret' = Ret("setsearch", "true", OK)
    /\ arg' = <<>>
    /\ UNCHANGED <<pkt, it, rr, resvars, hints, hosts, sysvars>>

\* optfint, optfbool: a key of the table, the present value when the key
\* is absent (a table's key is <<v>> or, absent, <<>>)
optf(field, def) == IF field = <<>> THEN def ELSE field[1]

\* resconf_setopts with a table of ndots and recurse
resconf_setopts(t) ==
    /\ refs.resconf.lua
    /\ resconf' = [resconf EXCEPT !.ndots = optf(t.ndots, @),
                                  !.recurse = optf(t.recurse, @)]
    /\ clo' = Stale(clo)
    /\ ret' = Ret("setopts", "true", OK)
    /\ arg' = <<>>
    /\ log' = <<Ev("setopts", "")>>
    /\ UNCHANGED <<pkt, it, rr, R, eng, cfg, fds, waits, inbox, sent, hints,
                   hosts, sysvars>>

\* resconf_getsearch: the slots up to the first empty one
getsearch_count(search) ==
    CHOOSE k \in 0..SearchSlots :
        /\ \A j \in 1..k : search[j] # <<>>
        /\ k = SearchSlots \/ search[k + 1] = <<>>

resconf_getsearch(c) == SubSeq(c.search, 1, getsearch_count(c.search))

\* resconf_search: a closure over the configuration, the query name and a
\* zeroed dns_resconf_i_t; out is a ghost field, the names yielded so far
resconf_search(q) ==
    /\ clo' = [kind |-> "search", qn |-> q, state |-> 0, srchi |-> 0,
               ndots |-> 0, out |-> <<>>, dirty |-> FALSE]
    /\ ret' = Ret("search", "closure", OK)
    /\ arg' = q
    /\ UNCHANGED <<pkt, it, rr, resvars, resconf, hints, hosts, sysvars>>

\* dns_resconf_search (spec-modelled): the iterator counts the dots of the
\* name on its first call; a name with at least ndots dots is yielded bare
\* first; then one suffixed name per search domain, up to the first empty
\* slot; then the bare name if it had fewer than ndots dots; then nothing
Dots(q) == Cardinality({k \in 1..Len(q) : q[k] = DOT})

search_suffix(c, qn, i) ==
    IF i.srchi < SearchSlots /\ c.search[i.srchi + 1] # <<>>
    THEN [dn |-> qn \o <<DOT>> \o c.search[i.srchi + 1],
          i |-> [i EXCEPT !.srchi = @ + 1]]
    ELSE IF i.ndots < c.ndots
    THEN [dn |-> qn, i |-> [i EXCEPT !.state = 3]]
    ELSE [dn |-> <<>>, i |-> [i EXCEPT !.state = 3]]

\* a search that never tries the bare name first
dns_resconf_search_late(c, qn, i) ==
    IF i.state = 0
    THEN search_suffix(c, qn, [i EXCEPT !.state = 1, !.ndots = Dots(qn)])
    ELSE IF i.state = 1 THEN search_suffix(c, qn, i)
    ELSE [dn |-> <<>>, i |-> i]

dns_resconf_search(c, qn, i) ==
    IF i.state = 0
    THEN IF Dots(qn) >= c.ndots
         THEN [dn |-> qn, i |-> [i EXCEPT !.state = 1, !.ndots = Dots(qn)]]
         ELSE search_suffix(c, qn, [i EXCEPT !.state = 1, !.ndots = Dots(qn)])
    ELSE IF i.state = 1 THEN search_suffix(c, qn, i)
    ELSE [dn |-> <<>>, i |-> i]

\* resconf__next: nothing when dns_resconf_search returns a length of 0,
\* the name otherwise
resconf__next ==
    /\ clo.kind = "search"
    /\ \E r \in {dns_resconf_search(resconf, clo.qn, clo)} :
          /\ clo' = [r.i EXCEPT
                        !.out = IF r.dn = <<>> THEN @ ELSE Append(@, r.dn)]
          /\ ret' = Ret("search_next",
                        IF r.dn = <<>> THEN "nothing" ELSE "string", OK)
          /\ arg' = r.dn
    /\ UNCHANGED <<pkt, it, rr, resvars, resconf, hints, hosts, sysvars>>

\* the names and tables the configuration is driven with: "h" and "h.s";
\* the domains "e.c", "c.i", "x", "y", "z"; tables of up to five domains,
\* one with a nil in it
MaxNdots == 2
QNames == {<<104>>, <<104, DOT, 115>>}
DomEC == <<101, DOT, 99>>
DomCI == <<99, DOT, 105>>
SearchTables ==
    {<<>>, <<DomEC>>, <<DomEC, DomCI>>, <<DomEC, <<>>, DomCI>>,
     <<DomEC, DomCI, <<120>>, <<121>>, <<122>>>>}

InitSearch ==
    /\ pkt = NoPacket
    /\ arg = <<>>
    /\ it = NoIter
    /\ rr = NoRR
    /\ ret = Ret("new", "resconf", OK)
    /\ R = [res |-> FALSE, mainthread |-> FALSE]
    /\ eng = NoEngine
    /\ cfg = NoCfg
    /\ fds = {}
    /\ waits = {}
    /\ inbox = NoInbox
    /\ sent = <<>>
    /\ log = <<>>
    /\ resconf = dns_resconf_open
    /\ hints = NoHints
    /\ hosts = NoHosts
    /\ clo = NoClosure
    /\ stat = Untracked
    /\ rng = 0
    /\ refs = [NoRefs EXCEPT !.resconf = LuaHeld]
    /\ held = NoHeld
    /\ peer = NoPeer

NextSearch ==
    \/ \E t \in SearchTables : resconf_setsearch(t)
    \/ \E n \in 0..MaxNdots :
          resconf_setopts([ndots |-> <<n>>, recurse |-> <<>>])
    \/ \E q \in QNames : resconf_search(q)
    \/ resconf__next

SpecSearch == InitSearch /\ [][NextSearch]_vars

\* the sequence the claim gives for name q under configuration c
Suffixed(q, L) == [k \in 1..Len(L) |-> q \o <<DOT>> \o L[k]]

Expected(c, q) ==
    IF Dots(q) >= c.ndots
    THEN <<q>> \o Suffixed(q, resconf_getsearch(c))
    ELSE Suffixed(q, resconf_getsearch(c)) \o <<q>>

IsPrefix(s, t) == Len(s) <= Len(t) /\ s = SubSeq(t, 1, Len(s))

\* C17: a search closure, while the configuration stays as it was, yields
\* the bare name first and then the name under each search domain in order
\* when the name has at least ndots dots, the name under each search domain
\* and then the bare name when it has fewer, each once, and then ends.
C17_SearchOrder ==
    (clo.kind = "search" /\ ~clo.dirty)
    => /\ IsPrefix(clo.out, Expected(resconf, clo.qn))
       /\ (ret.op = "search_next" /\ ret.val = "nothing")
          => clo.out = Expected(resconf, clo.qn)
       /\ (ret.op = "search_next" /\ ret.val = "string")
          => arg = clo.out[Len(clo.out)]

\* C17 witness: ndots 1 and the domains e.c and c.i: the search for h has
\* yielded h.e.c, h.c.i and h, and has ended
C17_Witness ==
    /\ clo.kind = "search"
    /\ ~clo.dirty
    /\ resconf.ndots = 1
    /\ resconf_getsearch(resconf) = <<DomEC, DomCI>>
    /\ clo.out = <<<<104, DOT>> \o DomEC, <<104, DOT>> \o DomCI, <<104>>>>
    /\ ret = Ret("search_next", "nothing", OK)

(***************************************************************************)
(* Address text.  dns_resconf_pton (spec-modelled) takes IPv4 or IPv6      *)
(* text and fails with InvalidAddressError on anything else.               *)
(***************************************************************************)
InvalidAddressError == "InvalidAddressError"

AF_INET == 2
AF_INET6 == 10

\* the fields of s between its dots
RECURSIVE Split(_)
FirstDot(s) == Least({k \in 1..Len(s) : s[k] = DOT})

Split(s) ==
    IF Dots(s) = 0 THEN <<s>>
    ELSE <<SubSeq(s, 1, FirstDot(s) - 1)>>
             \o Split(SubSeq(s, FirstDot(s) + 1, Len(s)))

\* a field of one to three decimal digits, and its value
IsNum(f) == Len(f) \in 1..3 /\ \A k \in 1..Len(f) : f[k] \in 48..57

RECURSIVE Val(_)
Val(f) ==
    IF f = <<>> THEN 0
    ELSE 10 * Val(SubSeq(f, 1, Len(f) - 1)) + (f[Len(f)] - 48)

IsV4(p) == Len(p) = 4 /\ \A k \in 1..4 : IsNum(p[k]) /\ Val(p[k]) <= 255

\* IPv6 text: of its forms the model knows the loopback address "::1"
V6Loopback == <<58, 58, 49>>

pton_fields(s, p) ==
    IF IsV4(p)
    THEN [error |-> OK, family |-> AF_INET,
          addr |-> <<Val(p[1]), Val(p[2]), Val(p[3]), Val(p[4])>>]
    ELSE IF s = V6Loopback
    THEN [error |-> OK, family |-> AF_INET6,
          addr |-> [k \in 1..16 |-> IF k = 16 THEN 1 ELSE 0]]
    ELSE [error |-> InvalidAddressError, family |-> 0, addr |-> <<>>]

dns_resconf_pton(s) == pton_fields(s, Split(s))

\* inet_ntop of either family
ntop(sa) == IF sa.family = AF_INET THEN inet_ntop(sa.addr) ELSE V6Loopback

\* "10.0.0.1", "10.0.0.2", "::1", and text that is no address: "10.0.0",
\* "10.0.0.256", "zz"
Addr1 == <<49, 48, DOT, 48, DOT, 48, DOT, 49>>
Addr2 == <<49, 48, DOT, 48, DOT, 48, DOT, 50>>
BadTexts ==
    {<<49, 48, DOT, 48, DOT, 48>>,
     <<49, 48, DOT, 48, DOT, 48, DOT, 50, 53, 54>>,
     <<122, 122>>}
AddrTexts == {Addr1, Addr2, V6Loopback} \cup BadTexts

(***************************************************************************)
(* The hints object: zones in the order they were first named, each with   *)
(* its candidates.  seq is a ghost field: the ordinal of the insert.       *)
(***************************************************************************)
\* the labels of a name, without the root's empty label
Labels(n) == SelectSeq(Split(n), LAMBDA f : f # <<>>)

\* zone z is a label-wise suffix of name n
IsSuffix(z, n) ==
    /\ Len(Labels(z)) <= Len(Labels(n))
    /\ Labels(z)
         = SubSeq(Labels(n), Len(Labels(n)) - Len(Labels(z)) + 1,
                  Len(Labels(n)))

ZoneIndex(H, zone) ==
    {k \in 1..Len(H) : Labels(H[k].zone) = Labels(zone)}

RECURSIVE Total(_)
Total(H) == IF H = <<>> THEN 0 ELSE Len(Head(H).addrs) + Total(Tail(H))

\* a list with entry e put behind every entry of its priority or below
sorted_put(L, e) ==
    SelectSeq(L, LAMBDA x : x.priority <= e.priority)
        \o <<e>> \o SelectSeq(L, LAMBDA x : x.priority > e.priority)

\* an insert that puts the candidate at the end of its zone's list
dns_hints_insert_last(H, zone, sa, priority) ==
    IF ZoneIndex(H, zone) = {}
    THEN Append(H, [zone |-> zone,
                    addrs |-> <<[sa |-> sa, priority |-> priority,
                                 seq |-> Total(H) + 1]>>])
    ELSE [H EXCEPT ![Least(ZoneIndex(H, zone))].addrs =
             Append(@, [sa |-> sa, priority |-> priority,
                        seq |-> Total(H) + 1])]

\* dns_hints_insert (spec-modelled): one more candidate for the zone, kept
\* in ascending priority, behind the candidates of the same priority
dns_hints_insert(H, zone, sa, priority) ==
    IF ZoneIndex(H, zone) = {}
    THEN Append(H, [zone |-> zone,
                    addrs |-> <<[sa |-> sa, priority |-> priority,
                                 seq |-> Total(H) + 1]>>])
    ELSE [H EXCEPT ![Least(ZoneIndex(H, zone))].addrs =
             sorted_put(@, [sa |-> sa, priority |-> priority,
                            seq |-> Total(H) + 1])]

\* a closure over hints loses track when an insert changes the table
StaleHints(c) == IF c.kind = "hints" THEN [c EXCEPT !.dirty = TRUE] ELSE c

\* hints_insert with address text: what it gives back and the table after
hints_insert_ret(sa) ==
    IF sa.error # OK THEN Thrown("hints_insert", "zone: error", sa.error)
    ELSE Ret("hints_insert", "true", OK)

hints_insert(zone, ns, priority) ==
    /\ \E sa \in {dns_resconf_pton(ns)} :
          /\ ret' = hints_insert_ret(sa)
          /\ hints' = IF sa.error # OK THEN hints
                      ELSE dns_hints_insert(hints, zone, sa, priority)
          /\ clo' = IF sa.error # OK THEN clo ELSE StaleHints(clo)
    /\ arg' = ns
    /\ UNCHANGED <<pkt, it, rr, resvars, resconf, hosts, sysvars>>

\* the zone a grep for name n reads (spec-modelled): the registered zone
\* that is the longest label-wise suffix of n; the root is a suffix of
\* every name; 0 when no registered zone is one
Matching(H, n) == {k \in 1..Len(H) : IsSuffix(H[k].zone, n)}

\* a grep that only ever reads the root zone
hints_zone_root(H, n) ==
    IF ZoneIndex(H, <<DOT>>) = {} THEN 0 ELSE Least(ZoneIndex(H, <<DOT>>))

hints_zone(H, n) ==
    IF Matching(H, n) = {} THEN 0
    ELSE CHOOSE k \in Matching(H, n) :
            \A j \in Matching(H, n) :
                Len(Labels(H[j].zone)) <= Len(Labels(H[k].zone))

\* dns_hints_grep(&sa, &salen, 1, i, hints) (spec-modelled): the next
\* candidate of the zone, or none
dns_hints_grep(H, i, z) ==
    IF z = 0 \/ i.next >= Len(H[z].addrs)
    THEN [n |-> 0, e |-> [sa |-> [family |-> 0], priority |-> 0, seq |-> 0],
          zone |-> <<>>, next |-> i.next]
    ELSE [n |-> 1, e |-> H[z].addrs[i.next + 1], zone |-> H[z].zone,
          next |-> i.next + 1]

\* hints_grep: a closure over the hints, the zone (default ".") and a
\* zeroed struct dns_hints_i; out is a ghost field, the candidates yielded
hints_grep(zone) ==
    /\ clo' = [kind |-> "hints", zone |-> zone, next |-> 0, out |-> <<>>,
               dirty |-> FALSE]
    /\ ret' = Ret("hints_grep", "closure", OK)
    /\ arg' = zone
    /\ UNCHANGED <<pkt, it, rr, resvars, resconf, hints, hosts, sysvars>>

\* hints_next: the text of the next candidate (the model's candidates have
\* no port of their own, so none is printed), or nothing
hints_next ==
    /\ clo.kind = "hints"
    /\ \E g \in {dns_hints_grep(hints, clo, hints_zone(hints, clo.zone))} :
          /\ clo' = [clo EXCEPT
                        !.next = g.next,
                        !.out = IF g.n = 0 THEN @
                                ELSE Append(@, [e |-> g.e, zone |-> g.zone])]
          /\ ret' = Ret("hints_next",
                        IF g.n = 0 THEN "nothing" ELSE "string", OK)
          /\ arg' = IF g.n = 0 THEN <<>> ELSE ntop(g.e.sa)
    /\ UNCHANGED <<pkt, it, rr, resvars, resconf, hints, hosts, sysvars>>

\* the zones "e.c" and ".", names under them and beside them, two
\* priorities, and at most MaxHints candidates in the table
MaxHints == 3
Priorities == {0, 1}
Zones == {DomEC, <<DOT>>}
W == <<119, DOT>>
GrepNames == {W \o DomEC, DomEC, <<120>>, <<DOT>>}

InitHints ==
    /\ pkt = NoPacket
    /\ arg = <<>>
    /\ it = NoIter
    /\ rr = NoRR
    /\ ret = Ret("new", "hints", OK)
    /\ R = [res |-> FALSE, mainthread |-> FALSE]
    /\ eng = NoEngine
    /\ cfg = NoCfg
    /\ fds = {}
    /\ waits = {}
    /\ inbox = NoInbox
    /\ sent = <<>>
    /\ log = <<>>
    /\ resconf = NoResconf
    /\ hints = <<>>
    /\ hosts = NoHosts
    /\ clo = NoClosure
    /\ stat = Untracked
    /\ rng = 0
    /\ refs = [NoRefs EXCEPT !.hints = LuaHeld]
    /\ held = NoHeld
    /\ peer = NoPeer

NextHints ==
    \/ \E z \in Zones, a \in {Addr1, V6Loopback, <<122, 122>>},
          p \in Priorities :
          /\ Total(hints) < MaxHints
          /\ hints_insert(z, a, p)
    \/ \E n \in GrepNames : hints_grep(n)
    \/ hints_next

SpecHints == InitHints /\ [][NextHints]_vars

\* the candidates a closure has yielded are in order: ascending priority,
\* and among equal priorities ascending ordinal of insertion
InOrder(out) ==
    \A i, j \in 1..Len(out) :
        i < j => \/ out[i].e.priority < out[j].e.priority
                 \/ /\ out[i].e.priority = out[j].e.priority
                    /\ out[i].e.seq < out[j].e.seq

\* the registered zones that are label-wise suffixes of name n
SuffixZones(n) == {k \in 1..Len(hints) : IsSuffix(hints[k].zone, n)}

\* C18: a grep closure yields candidates of one zone only, a registered
\* zone that is a label-wise suffix of the name asked for and the longest
\* such (so the root's only when no closer zone is registered), and when it
\* ends it has yielded every candidate of that zone.
C18_ClosestZone ==
    (clo.kind = "hints" /\ ~clo.dirty)
    => /\ \A k \in 1..Len(clo.out) :
             /\ IsSuffix(clo.out[k].zone, clo.zone)
             /\ ZoneIndex(hints, clo.out[k].zone) # {}
             /\ \A j \in SuffixZones(clo.zone) :
                   Len(Labels(hints[j].zone)) <= Len(Labels(clo.out[k].zone))
       /\ (ret.op = "hints_next" /\ ret.val = "nothing")
          => /\ SuffixZones(clo.zone) = {} => clo.out = <<>>
             /\ \A j \in SuffixZones(clo.zone) :
                   (\A i \in SuffixZones(clo.zone) :
                       Len(Labels(hints[i].zone)) <= Len(Labels(hints[j].zone)))
                   => [k \in 1..Len(clo.out) |-> clo.out[k].e] = hints[j].addrs
       /\ (ret.op = "hints_next" /\ ret.val = "string")
          => arg = ntop(clo.out[Len(clo.out)].e.sa)

\* C18 witness: e.c and the root both hold candidates, and the grep for
\* w.e.c has ended after yielding the two candidates of e.c
C18_Witness ==
    /\ clo.kind = "hints"
    /\ ~clo.dirty
    /\ clo.zone = W \o DomEC
    /\ ret = Ret("hints_next", "nothing", OK)
    /\ Len(clo.out) = 2
    /\ \A k \in 1..2 : clo.out[k].zone = DomEC
    /\ ZoneIndex(hints, <<DOT>>) # {}
    /\ Total(hints) = 3

dns_hosts_open == <<>>

dns_hosts_insert(H, af, addr, dn, alias) ==
    Append(H, [af |-> af, addr |-> addr, host |-> dn, alias |-> alias])

\* an insert that takes only IPv4 addresses into the table
hosts_insert_family_v4(H, sa, dn, alias) ==
    IF sa.family = AF_INET
    THEN dns_hosts_insert(H, AF_INET, sa.addr, dn, alias)
    ELSE H

\* hosts_insert, the switch on the family of the parsed address
hosts_insert_family(H, sa, dn, alias) ==
    IF sa.family = AF_INET
    THEN dns_hosts_insert(H, AF_INET, sa.addr, dn, alias)
    ELSE IF sa.family = AF_INET6
    THEN dns_hosts_insert(H, AF_INET6, sa.addr, dn, alias)
    ELSE H

\* hosts_insert: text that is no address raises the error of
\* dns_resconf_pton and leaves the table alone
hosts_insert(ip, dn, alias) ==
    /\ \E sa \in {dns_resconf_pton(ip)} :
          /\ ret' = IF sa.error # OK
                    THEN Thrown("hosts_insert", "ip: error", sa.error)
                    ELSE Ret("hosts_insert", "true", OK)
          /\ hosts' = IF sa.error # OK THEN hosts
                      ELSE hosts_insert_family(hosts, sa, dn, alias)
    /\ arg' = ip
    /\ UNCHANGED <<pkt, it, rr, resvars, resconf, hints, clo, sysvars>>

MaxHosts == 3

InitHosts ==
    /\ pkt = NoPacket
    /\ arg = <<>>
    /\ it = NoIter
    /\ rr = NoRR
    /\ ret = Ret("new", "hosts", OK)
    /\ R = [res |-> FALSE, mainthread |-> FALSE]
    /\ eng = NoEngine
    /\ cfg = NoCfg
    /\ fds = {}
    /\ waits = {}
    /\ inbox = NoInbox
    /\ sent = <<>>
    /\ log = <<>>
    /\ resconf = NoResconf
    /\ hints = NoHints
    /\ hosts = dns_hosts_open
    /\ clo = NoClosure
    /\ stat = Untracked
    /\ rng = 0
    /\ refs = [NoRefs EXCEPT !.hosts = LuaHeld]
    /\ held = NoHeld
    /\ peer = NoPeer

NextHosts ==
    \E ip \in AddrTexts, dn \in Names, alias \in BOOLEAN :
        /\ Len(hosts) < MaxHosts
        /\ hosts_insert(ip, dn, alias)

SpecHosts == InitHosts /\ [][NextHosts]_vars

\* the family of well-formed address text: IPv6 text holds a colon
FamilyOf(text) ==
    IF \E k \in 1..Len(text) : text[k] = 58 THEN AF_INET6 ELSE AF_INET

C20_Step ==
    ret'.op = "hosts_insert"
    => /\ arg' \in BadTexts
          => /\ ret' = Thrown("hosts_insert", "ip: error", InvalidAddressError)
             /\ hosts' = hosts
       /\ arg' \notin BadTexts
          => /\ ret' = Ret("hosts_insert", "true", OK)
             /\ Len(hosts') = Len(hosts) + 1
             /\ SubSeq(hosts', 1, Len(hosts)) = hosts
             /\ hosts'[Len(hosts')].af = FamilyOf(arg')
             /\ ntop([family |-> hosts'[Len(hosts')].af,
                      addr |-> hosts'[Len(hosts')].addr]) = arg'

\* C20: an insert with text that is no IPv4 or IPv6 address raises
\* InvalidAddressError and leaves the table as it was; an insert with an
\* address adds one entry, at the end, of the address's family and value.
C20_InsertValidates == [][C20_Step]_vars

\* C20 witness: the table holds an IPv4 and an IPv6 entry, and the last
\* insert, of 10.0.0.256, was refused
C20_Witness ==
    /\ ret = Thrown("hosts_insert", "ip: error", InvalidAddressError)
    /\ arg = <<49, 48, DOT, 48, DOT, 48, DOT, 50, 53, 54>>
    /\ Len(hosts) = 2
    /\ hosts[1].af = AF_INET
    /\ hosts[2].af = AF_INET6

(***************************************************************************)
(* Header flags: setflags with a number and the table flags gives back.    *)
(* struct dns_header (lib/dns.h) lays its bit-fields out as the wire does: *)
(* the flags word at offset 2, qr its top bit and rcode its low four.      *)
(***************************************************************************)
\* a field of the header: width bits of the flags word from bit shift up
hdr_field(P, shift, width) == (flags_of(P) \div (2 ^ shift)) % (2 ^ width)

\* lua_pushboolean of a one-bit field
lua_toboolean(b) == b # 0

\* pkt_flags: the table of the eight fields
pkt_flags_table(P) ==
    [qr     |-> lua_toboolean(hdr_field(P, 15, 1)),
     opcode |-> hdr_field(P, 11, 4),
     aa     |-> lua_toboolean(hdr_field(P, 10, 1)),
     tc     |-> lua_toboolean(hdr_field(P, 9, 1)),
     rd     |-> lua_toboolean(hdr_field(P, 8, 1)),
     ra     |-> lua_toboolean(hdr_field(P, 7, 1)),
     z      |-> hdr_field(P, 4, 3),
     rcode  |-> hdr_field(P, 0, 4)]

\* pkt_flags leaves the packet alone; the table it gives back is in arg'
pkt_flags ==
    /\ ret' = Ret("flags", "table", OK)
    /\ arg' = pkt_flags_table(pkt)
    /\ UNCHANGED <<pkt, it, rr, resvars, libvars, sysvars>>

\* every 16-bit flags word
AllFlagWords == 0 .. 65535

\* the word a caller that walks through every flags word sets next: zero on
\* a new packet, the word after the one read back otherwise
NextWord == IF ret.op = "flags" THEN flags_of(pkt) + 1 ELSE 0

\* a packet with and empty packets, every flags word set on them in turn
\* (and the two extreme words at any time), and the table read back
FlagInputs == {Hdr(4660, 256, 1, 1) \o Qa \o RRa}

NextFlags ==
    \/ \E d \in FlagInputs : ret.op = "flags" /\ pkt_new(TRUE, d, Len(d))
    \/ \E f \in {NextWord} \cap AllFlagWords :
          ret.op # "setflags" /\ pkt_setflags(f)
    \/ \E f \in FlagWords : ret.op = "flags" /\ pkt_setflags(f)
    \/ ret.op = "setflags" /\ pkt_flags

SpecFlags == InitPkt /\ [][NextFlags]_vars

Bit(b) == IF b THEN 1 ELSE 0

\* the number the fields of a flags table stand for
Recompose(t) ==
    Bit(t.qr) * 32768 + t.opcode * 2048 + Bit(t.aa) * 1024
        + Bit(t.tc) * 512 + Bit(t.rd) * 256 + Bit(t.ra) * 128
        + t.z * 16 + t.rcode

\* the bytes of a packet outside its flags word
OutsideFlags(P) == [i \in (1..Len(P.data)) \ {3, 4} |-> P.data[i]]

C28_Step ==
    /\ (ret'.op = "setflags" /\ arg'[1] \in AllFlagWords)
       => /\ qid_of(pkt') = qid_of(pkt)
          /\ \A s \in Sections : dns_p_count(pkt', s) = dns_p_count(pkt, s)
          /\ OutsideFlags(pkt') = OutsideFlags(pkt)
          /\ pkt'.end = pkt.end /\ pkt'.size = pkt.size
          /\ pkt'.dict = pkt.dict
    /\ (ret.op = "setflags" /\ ret'.op = "flags")
       => /\ Recompose(arg') = arg[1]
          /\ arg'.opcode \in 0..15 /\ arg'.z \in 0..7 /\ arg'.rcode \in 0..15
          /\ pkt' = pkt

\* C28: for every n in 0..65535 the fields flags() reports after
\* setflags(n) recompose to n (qr bit 15, opcode bits 14..11, aa bit 10,
\* tc bit 9, rd bit 8, ra bit 7, z bits 6..4, rcode bits 3..0), and
\* setflags changes neither the query id, the section counts nor the
\* payload.
C28_FlagsRoundTrip == [][C28_Step]_vars

\* flags read back after setflags(43981) on a packet with a question and
\* an answer: every field non-zero
C28_Witness ==
    /\ ret.op = "flags"
    /\ pkt.end > HDRSIZE
    /\ flags_of(pkt) = 43981
    /\ arg = [qr |-> TRUE, opcode |-> 5, aa |-> FALSE, tc |-> TRUE,
              rd |-> TRUE, ra |-> TRUE, z |-> 4, rcode |-> 13]

(***************************************************************************)
(* dns.random.  A C unsigned is 32 bits wide; a value of it is the pair    *)
(* <<hi, lo>> of its 16-bit halves, and 2^32 itself is <<65536, 0>>.       *)
(***************************************************************************)
u32_ge(a, b) == a[1] > b[1] \/ (a[1] = b[1] /\ a[2] >= b[2])

\* a - b for a >= b
u32_sub(a, b) ==
    IF a[2] >= b[2] THEN <<a[1] - b[1], a[2] - b[2]>>
    ELSE <<a[1] - b[1] - 1, a[2] + 65536 - b[2]>>

\* -n in unsigned arithmetic: 2^32 - n, and 0 for 0
u32_neg(n) == IF n = <<0, 0>> THEN n ELSE u32_sub(<<65536, 0>>, n)

\* bit k of x, for k in 0..32
u32_bit(x, k) ==
    IF k >= 16 THEN (x[1] \div (2 ^ (k - 16))) % 2 ELSE (x[2] \div (2 ^ k)) % 2

\* 2 * r + b
u32_shl(r, b) ==
    <<2 * r[1] + ((2 * r[2] + b) \div 65536), (2 * r[2] + b) % 65536>>

\* x % n by long division, from bit k of x down, with r the remainder of
\* the bits above k
RECURSIVE u32_mod_from(_, _, _, _)
u32_mod_from(x, n, k, r) ==
    IF k < 0 THEN r
    ELSE LET s == u32_shl(r, u32_bit(x, k))
         IN  IF u32_ge(s, n) THEN u32_mod_from(x, n, k - 1, u32_sub(s, n))
             ELSE u32_mod_from(x, n, k - 1, s)

u32_mod(x, n) == u32_mod_from(x, n, 32, <<0, 0>>)

\* the argument of random: none; a number of 2^32 or more; a whole number
\* below 2^32 (v); a negative whole number (v its magnitude)
NoArg == [kind |-> "none", v |-> <<0, 0>>]
BigArg == [kind |-> "big", v |-> <<0, 0>>]
IntArg(v) == [kind |-> "int", v |-> v]
NegArg(v) == [kind |-> "neg", v |-> v]

\* (unsigned)modn.  The conversion of a double of -1 or less is undefined:
\* builds give the value modulo 2^32 or saturate to zero.
to_unsigned(m) ==
    IF m.kind = "neg" THEN {u32_neg(m.v), <<0, 0>>} ELSE {m.v}

\* min = -n % n
random_min(n) == u32_mod(u32_neg(n), n)

\* the loop's test: r >= min
random_accepts(r, min) == u32_ge(r, min)

\* for (;;) { r = dns_random(); if (r >= min) break; }: the draws taken,
\* every one refused but the last
random_loop(draws, min) ==
    /\ draws # <<>>
    /\ \A i \in 1..(Len(draws) - 1) : ~random_accepts(draws[i], min)
    /\ random_accepts(draws[Len(draws)], min)

\* the numbers random is asked for: 0, 1, 2, 3, 10, 65535, 65536, 65537,
\* 2^31, 3 * 2^30, 2^32 - 1, -1 and -5, a number too big, and none
RandomArgs ==
    {NoArg, BigArg, NegArg(<<0, 1>>), NegArg(<<0, 5>>)}
        \cup {IntArg(v) : v \in {<<0, 0>>, <<0, 1>>, <<0, 2>>, <<0, 3>>,
                                 <<0, 10>>, <<0, 65535>>, <<1, 0>>,
                                 <<1, 1>>, <<32768, 0>>, <<49152, 0>>,
                                 <<65535, 65535>>}}

\* what dns_random() may give: small and large values, among them values
\* below 2^32 mod n for some n asked for
RandomDraws ==
    {<<0, 0>>, <<0, 3>>, <<0, 5>>, <<0, 6>>, <<1, 0>>, <<32768, 0>>,
     <<65535, 65535>>}

\* the loop draws at most this many times
MaxDraws == 2

DrawSeqs ==
    UNION {[1..k -> RandomDraws] : k \in 1..MaxDraws}

\* dnsL_random: what the call was given and what it drew are in arg', the
\* number it gave back in ret'.val
dnsL_random(modn) ==
    /\ \/ /\ modn.kind \in {"none", "big"}
          /\ \E r \in RandomDraws :
                /\ ret' = Ret("random", r, OK)
                /\ arg' = [modn |-> modn, n |-> <<0, 0>>, min |-> <<0, 0>>,
                           draws |-> <<r>>]
       \/ /\ modn.kind \notin {"none", "big"}
          /\ \E n \in to_unsigned(modn) :
                IF u32_ge(n, <<0, 2>>)
                THEN \E min \in {random_min(n)} : \E draws \in DrawSeqs :
                        /\ random_loop(draws, min)
                        /\ ret' = Ret("random",
                                      u32_mod(draws[Len(draws)], n), OK)
                        /\ arg' = [modn |-> modn, n |-> n, min |-> min,
                                   draws |-> draws]
                ELSE /\ ret' = Thrown("random", "interval is empty", OK)
                     /\ arg' = [modn |-> modn, n |-> n, min |-> <<0, 0>>,
                                draws |-> <<>>]
    /\ UNCHANGED <<pkt, it, rr, resvars, libvars, sysvars>>

NextRandom == \E m \in RandomArgs : dnsL_random(m)

SpecRandom == InitPkt /\ [][NextRandom]_vars

\* 2^32 mod n for n below 2^15, in plain arithmetic
Pow32Mod(n) == ((65536 % n) * (65536 % n)) % n

\* the call answered with a number
Answered == ret.op = "random" /\ ret.thrown = ""

\* for a whole n of 2 or more: the result is below n, every draw before the
\* last was below min and the last is not, min is below n and 2^32 - min is
\* a multiple of n (for small n: min is 2^32 mod n in plain arithmetic), so
\* the accepted draws min .. 2^32 - 1 fall evenly on the residues
C29_Accepting ==
    (Answered /\ arg.modn.kind = "int")
    => /\ u32_ge(arg.modn.v, <<0, 2>>)
       /\ arg.n = arg.modn.v
       /\ ~u32_ge(ret.val, arg.n)
       /\ ~u32_ge(arg.min, arg.n)
       /\ u32_mod(u32_sub(<<65536, 0>>, arg.min), arg.n) = <<0, 0>>
       /\ (arg.n[1] = 0 /\ arg.n[2] < 32768)
          => arg.min = <<0, Pow32Mod(arg.n[2])>>
       /\ \A i \in 1..Len(arg.draws) :
             u32_ge(arg.draws[i], arg.min) <=> i = Len(arg.draws)
       /\ ret.val = u32_mod(arg.draws[Len(arg.draws)], arg.n)

\* with no argument or a number of 2^32 or more: the draw as it is
C29_Raw ==
    (Answered /\ arg.modn.kind \in {"none", "big"})
    => arg.draws = <<ret.val>>

\* whole numbers of 1 or less, negative ones among them, are refused
C29_Rejecting ==
    (ret.op = "random"
        /\ (arg.modn.kind = "neg"
            \/ (arg.modn.kind = "int" /\ ~u32_ge(arg.modn.v, <<0, 2>>))))
    => ret.thrown = "interval is empty"

\* C29: random(n) for 2 <= n < 2^32 returns r with 0 <= r < n, accepting
\* only draws of at least 2^32 mod n (-n % n in unsigned arithmetic), so
\* that every residue has the same number of accepted draws; with no
\* argument or n >= 2^32 it returns the raw draw; n <= 1 is rejected as an
\* empty interval.
C29_RandomInterval == C29_Accepting /\ C29_Raw /\ C29_Rejecting

\* the parts of C29 that hold: every case but the negative numbers
C29_RandomIntervalWhole == C29_Accepting /\ C29_Raw

\* random(-5) answered with a number: -5 became 2^32 - 5
C29_Departure ==
    /\ Answered
    /\ arg.modn = NegArg(<<0, 5>>)
    /\ arg.n = <<65535, 65531>>

\* random(10): the draw 5 refused (2^32 mod 10 is 6), the draw 65536 taken
C29_Refusal ==
    /\ Answered
    /\ arg.modn = IntArg(<<0, 10>>)
    /\ arg.min = <<0, 6>>
    /\ arg.draws = <<<<0, 5>>, <<1, 0>>>>
    /\ ret.val = <<0, 6>>

(***************************************************************************)
(* The configuration's nameserver slots: setns and getns.                  *)
(***************************************************************************)
\* what dns_resconf_pton stores for address text that parses
sockaddr(r) == [family |-> r.family, addr |-> r.addr]

\* entry i of the table given to setns: lua_rawgeti, nil beyond its end
\* (<<>> stands for nil)
rawgeti(t, i) == IF i <= Len(t) THEN t[i] ELSE <<>>

RECURSIVE setns_from(_, _, _)
\* resconf_setns, from slot i on: text is parsed into the slot itself and
\* the first text that does not parse ends the call; nil clears the slot
setns_from(ns, t, i) ==
    IF i > NameserverSlots THEN [ns |-> ns, error |-> OK]
    ELSE IF rawgeti(t, i) = <<>>
    THEN setns_from([ns EXCEPT ![i] = Unspecified], t, i + 1)
    ELSE LET r == dns_resconf_pton(rawgeti(t, i))
         IN  IF r.error # OK THEN [ns |-> ns, error |-> r.error]
             ELSE setns_from([ns EXCEPT ![i] = sockaddr(r)], t, i + 1)

setns_slots(ns, t) == setns_from(ns, t, 1)

\* resconf_setns; arg' holds the table given and, as a ghost, the slots as
\* they were before the call
resconf_setns(t) ==
    /\ \E s \in {setns_slots(resconf.nameserver, t)} :
          /\ resconf' = [resconf EXCEPT !.nameserver = s.ns]
          /\ ret' = IF s.error = OK THEN Ret("setns", "true", OK)
                    ELSE Thrown("setns", "address", s.error)
    /\ arg' = [table |-> t, before |-> resconf.nameserver]
    /\ clo' = Stale(clo)
    /\ UNCHANGED <<pkt, it, rr, resvars, hints, hosts, sysvars>>

\* resconf_getns: the text of every slot that holds an address, under the
\* slot's index
getns_table(ns) ==
    [i \in {j \in 1..NameserverSlots : ns[j].family # AF_UNSPEC}
        |-> ntop(ns[i])]

resconf_getns ==
    /\ ret' = Ret("getns", "table", OK)
    /\ arg' = getns_table(resconf.nameserver)
    /\ UNCHANGED <<pkt, it, rr, resvars, libvars, sysvars>>

\* tables of up to one entry more than there are slots: addresses, text
\* that is no address, and holes
NsEntries == {Addr1, V6Loopback, <<122, 122>>, <<>>}
NsTables == UNION {[1..k -> NsEntries] : k \in 0..(NameserverSlots + 1)}

NextNs ==
    \/ \E t \in NsTables : resconf_setns(t)
    \/ resconf_getns

SpecNs == InitSearch /\ [][NextNs]_vars

\* the state after a call of setns
AfterSetns == ret.op = "setns"

\* a failed setns leaves every slot as it was
C27_Nothing ==
    (AfterSetns /\ ret.thrown # "")
    => resconf.nameserver = arg.before

\* setns fails exactly when an entry within the slot limit does not parse,
\* and after a setns that succeeds slot i holds the i-th address and the
\* slots without an entry are unspecified
C27_All ==
    AfterSetns
    => /\ ret.thrown # ""
          <=> \E i \in 1..NameserverSlots :
                 /\ rawgeti(arg.table, i) # <<>>
                 /\ dns_resconf_pton(rawgeti(arg.table, i)).error # OK
       /\ ret.thrown = ""
          => \A i \in 1..NameserverSlots :
                IF rawgeti(arg.table, i) = <<>>
                THEN resconf.nameserver[i] = Unspecified
                ELSE /\ resconf.nameserver[i].family # AF_UNSPEC
                     /\ ntop(resconf.nameserver[i]) = rawgeti(arg.table, i)

\* C27: setns is all-or-nothing: when one address in the list fails to
\* parse, setns raises an error and every nameserver slot holds the value
\* it had before the call; when all addresses parse, slot i holds the i-th
\* address for each i below the slot limit and every slot without a list
\* entry is cleared to unspecified.
C27_SetnsAllOrNothing == C27_Nothing /\ C27_All

\* setns{"::1", "zz"} on a configuration whose first nameserver was
\* 10.0.0.1: the call failed and the first slot holds ::1
C27_Departure ==
    /\ AfterSetns
    /\ ret.thrown # ""
    /\ arg.table = <<V6Loopback, <<122, 122>>>>
    /\ arg.before[1] = [family |-> AF_INET, addr |-> <<10, 0, 0, 1>>]
    /\ ntop(resconf.nameserver[1]) = V6Loopback

(***************************************************************************)
(* The resolver's other methods: pollfd, events, timeout, stat, type, and  *)
(* the __gc metamethod.  What the engine answers to pollfd, events and     *)
(* timeout is its own matter and is any value of the right kind.           *)
(***************************************************************************)
\* a method that asks the engine without res_check
res_ask_unchecked(op, kind, answer) ==
    /\ ret' = Ret(op, kind, OK)
    /\ arg' = answer
    /\ log' = <<Ev(op, "")>>
    /\ UNCHANGED <<R, eng, cfg, fds, waits, inbox, sent, pkt, it, rr,
                   libvars, sysvars>>

\* a method that asks the engine and changes nothing: its answer is in arg'
res_ask(op, kind, answer) ==
    \/ defunct(op) /\ UNCHANGED sysvars
    \/ /\ R.res
       /\ ret' = Ret(op, kind, OK)
       /\ arg' = answer
       /\ log' = <<Ev(op, "")>>
       /\ UNCHANGED <<R, eng, cfg, fds, waits, inbox, sent, pkt, it, rr,
                      libvars, sysvars>>

\* res_pollfd: the descriptor the engine waits on
res_pollfd == \E fd \in fds \cup {"-1"} : res_ask("pollfd", "integer", fd)

\* res_events: the poll mask as a string, nil for any other mask
POLLIN == 1
POLLOUT == 4
events_name(mask) ==
    IF mask = POLLIN + POLLOUT THEN "rw"
    ELSE IF mask = POLLIN THEN "r"
    ELSE IF mask = POLLOUT THEN "w"
    ELSE "nil"

res_events ==
    \E mask \in {0, POLLIN, POLLOUT, POLLIN + POLLOUT} :
        res_ask("events", "string", events_name(mask))

\* res_timeout: the seconds the engine can wait
res_timeout == \E t \in {0, 1} : res_ask("timeout", "number", t)

\* res_stat: a table of the counters
stat_table(st) == [queries |-> st.queries, udp |-> st.udp, tcp |-> st.tcp]

res_stat == res_ask("stat", "table", stat_table(stat))

\* res_type: resolver.type(obj) for a resolver object
type_name(res) == IF res THEN "dns resolver" ELSE "closed dns resolver"

res_type ==
    /\ ret' = Ret("type", type_name(R.res), OK)
    /\ log' = <<Ev("type", "")>>
    /\ UNCHANGED <<R, eng, cfg, fds, waits, inbox, sent, pktvars, libvars,
                   sysvars>>

(***************************************************************************)
(* Statistics: one resolver with its counters followed, one query name,    *)
(* answers that match, are truncated or do not match.                      *)
(***************************************************************************)
\* submits and received messages are counted up to these
MaxQueries == 2
MaxRcvd == 3

Received(st) == st.udp.rcvd.count + st.tcp.rcvd.count

StatResponses ==
    {Hdr(4660, 33152, 1, 1) \o Qa \o RRa,
     Hdr(4660, 33664, 1, 0) \o Qa,
     Hdr(1, 33152, 1, 0) \o Qa}

InitStat ==
    /\ pkt = NoPacket
    /\ arg = <<>>
    /\ it = NoIter
    /\ rr = NoRR
    /\ ret = Ret("new", "resolver", OK)
    /\ R \in [res : {TRUE}, mainthread : BOOLEAN]
    /\ eng = IdleEngine
    /\ cfg \in Configs
    /\ fds = {}
    /\ waits = {}
    /\ inbox = NoInbox
    /\ sent = <<>>
    /\ log = <<Ev("new", "")>>
    /\ NoObjects
    /\ stat = ZeroStat
    /\ rng = 0
    /\ refs = NoRefs
    /\ held = LocalHeld
    /\ peer = NoPeer

NextStat ==
    \/ /\ stat.queries < MaxQueries
       /\ res_submit(4660, <<97, DOT>>, DNS_T_A, DNS_C_IN)
    \/ res_fetch
    \/ res_stat
    \/ res_close
    \/ \E m \in StatResponses : Received(stat) < MaxRcvd /\ deliver(m)
    \/ expire

SpecStat == InitStat /\ [][NextStat]_vars

\* the transmissions a step made: all of sent' after an accepted submit,
\* what sent' has more than sent otherwise
Accepted == log'[1].ev = "submit" /\ ret'.val = "true"

NewlySent ==
    IF Accepted THEN sent'
    ELSE IF Len(sent') > Len(sent)
    THEN SubSeq(sent', Len(sent) + 1, Len(sent'))
    ELSE <<>>

\* the messages the engine read in a step: one for each answer or discard
\* event of the step
NewlyRead ==
    SelectSeq(log', LAMBDA e : e.ev \in {"answer", "discard"})

RECURSIVE Bytes(_)
Bytes(msgs) == IF msgs = <<>> THEN 0 ELSE Len(msgs[1].data) + Bytes(Tail(msgs))

Of(msgs, proto) == SelectSeq(msgs, LAMBDA t : t.proto = proto)

Protos == {"udp", "tcp"}

C21_Step ==
    (R.res /\ R'.res)
    => /\ stat'.queries
            = stat.queries
              + (IF Accepted THEN 1 ELSE 0)
       /\ \A p \in Protos :
             /\ stat'[p].sent.count
                  = stat[p].sent.count + Len(Of(NewlySent, p))
             /\ stat'[p].sent.bytes
                  = stat[p].sent.bytes + Bytes(Of(NewlySent, p))
             /\ stat'[p].rcvd.count
                  = stat[p].rcvd.count
                    + Len(SelectSeq(NewlyRead, LAMBDA e : e.fd = p))
             /\ stat'[p].rcvd.bytes
                  = stat[p].rcvd.bytes
                    + (IF SelectSeq(NewlyRead, LAMBDA e : e.fd = p) # <<>>
                       THEN Len(inbox.data) ELSE 0)
             /\ stat'[p].rcvd.bytes > stat[p].rcvd.bytes
                <=> stat'[p].rcvd.count > stat[p].rcvd.count
             /\ stat'[p].sent.bytes > stat[p].sent.bytes
                <=> stat'[p].sent.count > stat[p].sent.count
       /\ log'[1].ev = "stat" => arg' = stat_table(stat) /\ stat' = stat

\* C21: every transmit and every receive increments the packet counter and
\* the byte counter of its own protocol (UDP or TCP) and direction only,
\* every submitted query increments the total query counter, and no counter
\* ever decreases during the life of a resolver.
C21_Counters == [][C21_Step]_vars

\* stat called after a query that was sent over UDP, whose truncated answer
\* was read and that was sent again over TCP
C21_Witness ==
    /\ ret.op = "stat"
    /\ ret.thrown = ""
    /\ arg.queries = 1
    /\ arg.udp.sent.count = 1
    /\ arg.udp.rcvd.count = 1
    /\ arg.tcp.sent.count = 1
    /\ arg.tcp.rcvd.count = 0
    /\ arg.udp.rcvd.bytes = 19

(***************************************************************************)
(* The life of one resolver object: every method of the resolver, close    *)
(* and collection, one query name.  A collected object takes no more       *)
(* calls.                                                                  *)
(***************************************************************************)
Collected == log[1].ev = "__gc"

NextLife ==
    /\ ~Collected
    /\ \/ res_submit(4660, <<97, DOT>>, DNS_T_A, DNS_C_IN)
       \/ res_fetch
       \/ res_pollfd
       \/ res_events
       \/ res_timeout
       \/ res_stat
       \/ res_type
       \/ res_close
       \/ res__gc
       \/ poll
       \/ \E m \in StatResponses : deliver(m)
       \/ expire
       \/ sockfail

SpecLife == InitRes /\ [][NextLife]_vars

Closes == {i \in 1..Len(log') : log'[i].ev = "close"}

C26_Step ==
    log'[1].ev = "close()"
    => /\ \A i \in Closes : log'[i - 1] = Ev("cancel", log'[i].fd)
       /\ \A fd \in fds : \E i \in Closes : log'[i].fd = fd
       /\ \A i \in Closes : log'[i].fd \in fds
       /\ fds' = {}
       /\ waits' \cap fds = {}
       /\ R'.mainthread = R.mainthread

\* C26: during an explicit close() every descriptor the engine releases has
\* its wait cancelled immediately before it is closed, whether or not a main
\* thread was recorded at construction (the recorded value is the same after
\* the call as before); every open descriptor is released, and no wait stays
\* registered on a descriptor that close() closed.
C26_CancelBeforeClose == [][C26_Step]_vars

\* C26 witness: close() of a resolver with no main thread recorded, its
\* query outstanding on UDP
C26_Witness ==
    /\ ~R.res
    /\ ~R.mainthread
    /\ waits = {}
    /\ log = <<Ev("close()", ""), Ev("cancel", "udp"), Ev("close", "udp")>>

Defuncts == {"submit", "fetch", "pollfd", "events", "timeout", "stat"}

C25_Step ==
    ~R.res
    => /\ ~R'.res
       /\ log'[1].ev \in Defuncts
          => /\ ret' = Thrown(log'[1].ev, "resolver defunct", OK)
             /\ log' = <<Ev(log'[1].ev, "")>>
             /\ UNCHANGED <<R, eng, cfg, fds, waits, inbox, sent, pktvars,
                            libvars, sysvars>>
       /\ log'[1].ev = "type" => ret' = Ret("type", "closed dns resolver", OK)

\* C25: on a closed resolver submit, fetch, pollfd, events, timeout and stat
\* each raise the argument error "resolver defunct" and leave the engine,
\* the sockets, the waits, the messages and the counters as they were; type
\* reports "closed dns resolver"; and no step makes a closed resolver open
\* again.
C25_DefunctAfterClose == [][C25_Step]_vars

\* C25 witness: stat refused on a closed resolver
C25_Witness ==
    /\ ~R.res
    /\ eng = NoEngine
    /\ ret = Thrown("stat", "resolver defunct", OK)
    /\ log = <<Ev("stat", "")>>

(***************************************************************************)
(* Construction of resolvers.  Two resolver objects, the one a call is     *)
(* made on and its peer, and one configuration, one hosts and one hints    *)
(* object of the caller, each with its reference count.  held says, for    *)
(* each kind, what the resolver's engine was opened with: the caller's     *)
(* object ("given") or a default named after its constructor, with the     *)
(* default's own reference count.                                          *)
(***************************************************************************)
Kinds == {"resconf", "hosts", "hints"}

\* dns_*_acquire, dns_*_close on the caller's object (spec-modelled)
acquire(c) == [c EXCEPT !.count = @ + 1]

\* a default as its constructor returns it: one reference, the caller's
Made(from) == [from |-> from, count |-> 1, engine |-> FALSE]
Given == [from |-> "given", count |-> 0, engine |-> FALSE]

\* a construction that takes hosts from dns_hosts_local whatever the
\* configuration says
hosts_default_local(recurse) == "dns_hosts_local"

\* res_new: the constructor of the default hosts and hints
hosts_default(recurse) ==
    IF recurse THEN "dns_hosts_open" ELSE "dns_hosts_local"

hints_default(recurse) ==
    IF recurse THEN "dns_hints_root" ELSE "dns_hints_local"

\* res_new up to its first goto error: st is the references, what the call
\* holds of each kind, and the error so far
new_acquire(rf, given) ==
    [refs |-> [k \in Kinds |-> IF k \in given THEN acquire(rf[k]) ELSE rf[k]],
     held |-> [k \in Kinds |-> IF k \in given THEN Given ELSE Nothing],
     error |-> OK]

new_default(st, k, from, fail, error) ==
    IF st.error # OK \/ st.held[k].from # "none" THEN st
    ELSE IF from = fail THEN [st EXCEPT !.error = error]
    ELSE [st EXCEPT !.held[k] = Made(from)]

\* options.recurse of the configuration in effect
new_recurse(st, conf, localrecurse) ==
    IF st.held.resconf.from = "given" THEN conf.recurse ELSE localrecurse

\* dns_res_open (spec-modelled): the engine takes a reference of its own on
\* each of the three, or fails and takes none
dns_res_open(st, fail, error) ==
    IF st.error # OK THEN st
    ELSE IF fail = "dns_res_open" THEN [st EXCEPT !.error = error]
    ELSE [st EXCEPT
            !.refs = [k \in Kinds |-> IF st.held[k].from = "given"
                                      THEN acquire(st.refs[k])
                                      ELSE st.refs[k]],
            !.held = [k \in Kinds |->
                         [st.held[k] EXCEPT
                             !.engine = TRUE,
                             !.count = IF st.held[k].from = "given"
                                       THEN 0 ELSE @ + 1]]]

\* a construction that keeps its own references when it succeeds
new_close_onerror(st) ==
    IF st.error = OK THEN st
    ELSE [st EXCEPT
            !.refs = [k \in Kinds |-> IF st.held[k].from = "given"
                                      THEN release(st.refs[k])
                                      ELSE st.refs[k]],
            !.held = [k \in Kinds |->
                         IF st.held[k].from \in {"given", "none"}
                         THEN st.held[k]
                         ELSE release(st.held[k])]]

\* dns_resconf_close, dns_hosts_close, dns_hints_close at either exit: the
\* call's own reference on each of the three it has
new_close(st) ==
    [st EXCEPT
        !.refs = [k \in Kinds |-> IF st.held[k].from = "given"
                                  THEN release(st.refs[k])
                                  ELSE st.refs[k]],
        !.held = [k \in Kinds |->
                     IF st.held[k].from \in {"given", "none"}
                     THEN st.held[k]
                     ELSE release(st.held[k])]]

new_hints(st, recurse, fail, error) ==
    new_default(st, "hints", hints_default(recurse), fail, error)

new_hosts(st, recurse, fail, error) ==
    new_hints(new_default(st, "hosts", hosts_default(recurse), fail, error),
              recurse, fail, error)

new_defaults(st, conf, localrecurse, fail, error) ==
    new_hosts(st, new_recurse(st, conf, localrecurse), fail, error)

new_run(rf, conf, given, localrecurse, fail, error) ==
    new_close(dns_res_open(
        new_defaults(new_default(new_acquire(rf, given), "resconf",
                                 "dns_resconf_local", fail, error),
                     conf, localrecurse, fail, error),
        fail, error))

\* res_new(resconf, hosts, hints): given are the kinds the caller passes,
\* localrecurse the recurse option of the local configuration, fail the
\* constructor that fails, if one does, with error
res_new(given, localrecurse, fail, error) ==
    /\ ~R.res
    /\ \A k \in given : refs[k].lua
    /\ \E st \in {new_run(refs, resconf, given, localrecurse, fail, error)} :
          /\ refs' = st.refs
          /\ held' = IF st.error = OK THEN st.held ELSE NoHeld
          /\ R' = [R EXCEPT !.res = (st.error = OK)]
          /\ eng' = IF st.error = OK THEN IdleEngine ELSE NoEngine
          /\ ret' = IF st.error = OK THEN Ret("new", "resolver", OK)
                    ELSE Ret("new", "nil+err", st.error)
          /\ log' = <<[ev |-> "new", fd |-> "",
                       call |-> [given |-> given,
                                 recurse |-> IF st.held.resconf.from = "none"
                                             THEN FALSE
                                             ELSE new_recurse(st, resconf,
                                                              localrecurse),
                                 fail |-> fail,
                                 left |-> st.held]]>>
    /\ UNCHANGED <<cfg, fds, waits, inbox, sent, pktvars, libvars, stat, rng,
                   peer>>

\* resconf__gc, hosts__gc, hints__gc: the caller's object is collected and
\* its reference released
lib__gc(k) ==
    /\ refs[k].lua
    /\ refs' = [refs EXCEPT ![k] = [lua |-> FALSE, count |-> @.count - 1]]
    /\ ret' = Ret("__gc", "nothing", OK)
    /\ log' = <<Ev("__gc", k)>>
    /\ UNCHANGED <<R, eng, cfg, fds, waits, inbox, sent, pktvars, libvars,
                   stat, rng, held, peer>>

\* the next call is made on the other resolver object
Self ==
    [R |-> R, eng |-> eng, cfg |-> cfg, fds |-> fds, waits |-> waits,
     inbox |-> inbox, sent |-> sent, stat |-> stat, held |-> held]

yield ==
    /\ peer' = Self
    /\ R' = peer.R
    /\ eng' = peer.eng
    /\ cfg' = peer.cfg
    /\ fds' = peer.fds
    /\ waits' = peer.waits
    /\ inbox' = peer.inbox
    /\ sent' = peer.sent
    /\ stat' = peer.stat
    /\ held' = peer.held
    /\ log' = <<Ev("yield", "")>>
    /\ UNCHANGED <<ret, pktvars, libvars, rng, refs>>

\* res_prep: a resolver object before dns_res_open
Prepared(mainthread) ==
    [R |-> [res |-> FALSE, mainthread |-> mainthread], eng |-> NoEngine,
     cfg |-> NoCfg, fds |-> {}, waits |-> {}, inbox |-> NoInbox,
     sent |-> <<>>, stat |-> Untracked, held |-> NoHeld]

Fails ==
    {"none", "dns_resconf_local", "dns_hosts_open", "dns_hosts_local",
     "dns_hints_root", "dns_hints_local", "dns_res_open"}

InitNew ==
    /\ pkt = NoPacket
    /\ arg = <<>>
    /\ it = NoIter
    /\ rr = NoRR
    /\ ret = Ret("start", "nothing", OK)
    /\ \E m \in BOOLEAN :
          /\ R = Prepared(m).R
          /\ peer = Prepared(m)
    /\ eng = NoEngine
    /\ cfg = NoCfg
    /\ fds = {}
    /\ waits = {}
    /\ inbox = NoInbox
    /\ sent = <<>>
    /\ log = <<Ev("start", "")>>
    /\ resconf = dns_resconf_open
    /\ hints = NoHints
    /\ hosts = NoHosts
    /\ clo = NoClosure
    /\ stat = Untracked
    /\ rng = 0
    /\ refs = [k \in Kinds |-> LuaHeld]
    /\ held = NoHeld

\* the calls of res_new: the local configuration's recurse option matters
\* when no configuration is passed, and the constructor that fails is one
\* the call reaches
NewCalls ==
    {c \in [given : SUBSET Kinds, localrecurse : BOOLEAN, fail : Fails] :
        /\ "resconf" \in c.given => ~c.localrecurse
        /\ c.fail \in {"none", "dns_res_open"}
                      \cup {hosts_default(r) : r \in BOOLEAN}
                      \cup {hints_default(r) : r \in BOOLEAN}
           \/ "resconf" \notin c.given
        /\ c.fail \in {hosts_default(r) : r \in BOOLEAN}
           => "hosts" \notin c.given
        /\ c.fail \in {hints_default(r) : r \in BOOLEAN}
           => "hints" \notin c.given}

NextNew ==
    \/ \E c \in NewCalls :
          res_new(c.given, c.localrecurse, c.fail, CapacityError)
    \/ res_close
    \/ res__gc
    \/ \E k \in Kinds : lib__gc(k)
    \/ \E b \in BOOLEAN :
          resconf_setopts([ndots |-> <<>>, recurse |-> <<b>>])
    \/ yield

SpecNew == InitNew /\ [][NextNew]_vars

New == log'[1].ev = "new"

\* what the claim calls the system hosts table, the root hints, the local
\* hosts table and the hints derived from the configuration's nameservers
FromFor(k, recurse) ==
    IF k = "resconf" THEN "dns_resconf_local"
    ELSE IF k = "hosts"
    THEN (IF recurse THEN "dns_hosts_open" ELSE "dns_hosts_local")
    ELSE (IF recurse THEN "dns_hints_root" ELSE "dns_hints_local")

\* the defaults a call needs
Needed(given, recurse) == {FromFor(k, recurse) : k \in Kinds \ given}

\* the call of a step of res_new
Call == log'[1].call

C22_Step ==
    New
    => \E recurse \in {IF "resconf" \in Call.given THEN resconf.recurse
                       ELSE Call.recurse} :
          IF Call.fail \in Needed(Call.given, recurse)
                           \cup {"dns_res_open"}
          THEN /\ ret'.val = "nil+err"
               /\ ret'.err # OK
               /\ ~R'.res
               /\ held' = NoHeld
          ELSE /\ ret' = Ret("new", "resolver", OK)
               /\ R'.res
               /\ \A k \in Kinds :
                     /\ held'[k].engine
                     /\ held'[k].from = IF k \in Call.given THEN "given"
                                        ELSE FromFor(k, recurse)

\* C22: a resolver is constructed with each caller-supplied object as given,
\* the local stub configuration for a missing configuration, and for missing
\* hosts and hints the system hosts table and the root hints when the
\* configuration in effect has recurse set, the local hosts table and the
\* hints of the configuration's nameservers when it has not; when a default
\* that is needed, or the engine, cannot be opened, the call returns nil
\* and an error and leaves no resolver.
C22_FallbackChain == [][C22_Step]_vars

\* C22 witness: a resolver constructed with the caller's hints only, the
\* local configuration having recurse set
C22_Witness ==
    /\ R.res
    /\ log[1].ev = "new"
    /\ log[1].call.given = {"hints"}
    /\ log[1].call.recurse
    /\ held.resconf.from = "dns_resconf_local"
    /\ held.hosts.from = "dns_hosts_open"
    /\ held.hints.from = "given"

\* the holders of the caller's object of a kind: its Lua object and the
\* engines opened with it
Holders(k) ==
    (IF refs[k].lua THEN 1 ELSE 0)
    + (IF held[k].from = "given" /\ held[k].engine THEN 1 ELSE 0)
    + (IF peer.held[k].from = "given" /\ peer.held[k].engine THEN 1 ELSE 0)

\* every object has one reference for each holder: none is freed under a
\* holder, none outlives its holders
C24_Balanced ==
    \A k \in Kinds :
        /\ refs[k].count = Holders(k)
        /\ \A h \in {held[k], peer.held[k]} :
              /\ h.from \notin {"given", "none"} => (h.engine /\ h.count = 1)
              /\ h.from = "none" => ~h.engine

C24_Step ==
    New
    => IF ret'.val = "nil+err"
       THEN /\ refs' = refs
            /\ held' = NoHeld
            /\ \A k \in Kinds : /\ Call.left[k].count = 0
                                /\ ~Call.left[k].engine
       ELSE \A k \in Kinds :
               IF k \in Call.given
               THEN /\ refs'[k] = acquire(refs[k])
                    /\ held'[k] = [Given EXCEPT !.engine = TRUE]
               ELSE /\ refs'[k] = refs[k]
                    /\ held'[k].from \notin {"given", "none"}
                    /\ held'[k].count = 1
                    /\ held'[k].engine

\* C24: a construction that fails leaves every caller-supplied object with
\* the reference count it had and every default it made with none; one that
\* succeeds leaves every caller-supplied object with one reference more,
\* the engine's, and every default with the engine's reference alone; at
\* all times every object's count is the number of its holders.
C24_ReferencesBalanced == []C24_Balanced /\ [][C24_Step]_vars

\* C24 witness: the engine could not be opened on the caller's
\* configuration and defaults for hosts and hints, while the peer resolver
\* holds that configuration
C24_Witness ==
    /\ ~R.res
    /\ log[1].ev = "new"
    /\ ret = Ret("new", "nil+err", CapacityError)
    /\ log[1].call.given = {"resconf"}
    /\ log[1].call.fail = "dns_res_open"
    /\ log[1].call.left.hosts.from = "dns_hosts_local"
    /\ peer.held.resconf = [Given EXCEPT !.engine = TRUE]
    /\ refs.resconf.count = 2

(***************************************************************************)
(* Two resolvers at work: each with a query of its own, answered or not,   *)
(* fetched and closed, the calls on one interleaved with the calls on the  *)
(* other.  Both were constructed with the caller's configuration, or each  *)
(* with defaults of its own.                                               *)
(***************************************************************************)
\* held after res_new(resconf) and after res_new()
ConfHeld == [LocalHeld EXCEPT !.resconf = [Given EXCEPT !.engine = TRUE]]

\* a resolver as res_new returns it
Opened(mainthread, h) ==
    [Prepared(mainthread) EXCEPT !.R.res = TRUE, !.eng = IdleEngine,
                                 !.cfg = [attempts |-> 1, tcp |-> "enable"],
                                 !.stat = ZeroStat, !.held = h]

InitTwo ==
    /\ pkt = NoPacket
    /\ arg = <<>>
    /\ it = NoIter
    /\ rr = NoRR
    /\ ret = Ret("new", "resolver", OK)
    /\ \E m \in BOOLEAN, h \in {ConfHeld, LocalHeld} :
          /\ peer = Opened(m, h)
          /\ R = peer.R
          /\ eng = peer.eng
          /\ cfg = peer.cfg
          /\ stat = peer.stat
          /\ held = h
          /\ refs = [NoRefs EXCEPT
                        !.resconf = IF h = ConfHeld
                                    THEN [lua |-> TRUE, count |-> 3]
                                    ELSE LuaHeld]
    /\ fds = {}
    /\ waits = {}
    /\ inbox = NoInbox
    /\ sent = <<>>
    /\ log = <<Ev("new", "")>>
    /\ resconf = dns_resconf_open
    /\ hints = NoHints
    /\ hosts = NoHosts
    /\ clo = NoClosure
    /\ rng = 0

TwoResponses ==
    {Hdr(4660, 33152, 1, 1) \o Qa \o RRa, Hdr(4660, 33664, 1, 0) \o Qa}

NextTwo ==
    \/ /\ stat.queries < 1
       /\ res_submit(4660, <<97, DOT>>, DNS_T_A, DNS_C_IN)
    \/ res_fetch
    \/ res_close
    \/ \E m \in TwoResponses : deliver(m)
    \/ expire
    \/ yield

SpecTwo == InitTwo /\ [][NextTwo]_vars

\* the caller's objects the resolver was constructed with, which the caller
\* may have constructed the other resolver with as well
Supplied == {k \in Kinds : held[k].from = "given"}

\* a step of the resolver the calls are made on
Own == log'[1].ev # "yield"

C23_Apart == Own => peer' = peer

C23_Swap ==
    ~Own => /\ peer' = Self
            /\ Self' = peer
            /\ UNCHANGED <<rng, refs>>

\* C23 as claimed: a step of one resolver leaves the other's state, query
\* and counters as they are, and of what both can reach it changes nothing
\* but the random source.
C23_Independent ==
    [][C23_Apart /\ C23_Swap /\ (Own => refs' = refs)]_vars

\* C23 as amended: a step of one resolver leaves the other's state, query
\* and counters as they are, and of what both can reach it changes nothing
\* but the random source and, when it is closed, the reference count of a
\* caller-supplied object it was constructed with, which the other may hold
\* as well and which stays the number of the object's holders.
C23_IndependentButShared ==
    /\ []C24_Balanced
    /\ [][/\ C23_Apart
          /\ C23_Swap
          /\ Own => \A k \in Kinds :
                       refs'[k] # refs[k]
                       => /\ k \in Supplied
                          /\ refs'[k] = release(refs[k])
                          /\ log'[1].ev = "close()"]_vars

\* C23 witness: one resolver closed while the other, constructed with the
\* same configuration, has its query outstanding and counted
C23_Witness ==
    /\ ~R.res
    /\ log[1].ev = "close()"
    /\ peer.R.res
    /\ peer.eng.state = "QUERY_SENT"
    /\ peer.stat.queries = 1
    /\ peer.held.resconf.from = "given"
    /\ refs.resconf = [lua |-> TRUE, count |-> 2]

=============================================================================
